---- MODULE Spec2Model ----
(***************************************************************************)
(* Vertex-colour tools: the attribute engine (color_attribute.py), the     *)
(* linear/radial gradient painter (gradient.py), the topology gradient     *)
(* painter (topology_gradient.py) and the two interactive sessions         *)
(* (operators/paint_gradient.py, operators/paint_topology_gradient.py).    *)
(*                                                                         *)
(* Numbers: the program computes in floating point.  The model computes    *)
(* with exact rationals <<n, d>> (d > 0, lowest terms), so a comparison    *)
(* such as "length <= threshold" is decided exactly; rounding error of     *)
(* the floating-point evaluation is not modelled.                          *)
(*                                                                         *)
(* Host: the mesh (bmesh) belongs to the host program.  Its adjacency      *)
(* (loops, radial cycles, link_edges ...) is modelled by what the calls    *)
(* used in the source return.  Colour attributes are float attributes      *)
(* (FLOAT_COLOR); byte attributes are not enumerated.                      *)
(***************************************************************************)
EXTENDS Integers, Sequences, FiniteSets, TLC

(***************************************************************************)
(* Bounds of the model.                                                    *)
(***************************************************************************)
\* Largest number of quads of a strip mesh.
MaxQuads == 2
\* Largest number of edges of a wire (face-less) mesh.
MaxWire == 2
\* Largest number of triangles of a triangle strip mesh.
MaxTris == 3
\* Largest number of quads of a ring mesh.
MaxRing == 4

(***************************************************************************)
(* Exact rationals.  An operator that uses an argument more than once      *)
(* first binds its value (a \in {x}), so that the argument is evaluated    *)
(* once however deeply the calls nest.                                     *)
(***************************************************************************)
Only(S) == CHOOSE r \in S : TRUE

Abs(x) == IF x < 0 THEN -x ELSE x

Gcd[a \in Nat, b \in Nat] == IF b = 0 THEN a ELSE Gcd[b, a % b]

\* The rational n/d (d # 0) in lowest terms with a positive denominator.
Rat(n, d) ==
    Only({<<((IF b < 0 THEN -1 ELSE 1) * a) \div Gcd[Abs(a), Abs(b)],
            Abs(b) \div Gcd[Abs(a), Abs(b)]>> : a \in {n}, b \in {d}})

R(n) == <<n, 1>>
RZero == <<0, 1>>
ROne == <<1, 1>>
RHalf == <<1, 2>>
\* The sum is taken over the least common denominator and the product after
\* cancelling across, which keeps the intermediate integers small.
RAdd(x, y) ==
    Only({Only({Rat(a[1] * (b[2] \div g) + b[1] * (a[2] \div g), (a[2] \div g) * b[2]) :
                  g \in {Gcd[a[2], b[2]]}}) : a \in {x}, b \in {y}})
RMul(x, y) ==
    Only({Only({<<(a[1] \div g1) * (b[1] \div g2), (a[2] \div g2) * (b[2] \div g1)>> :
                  g1 \in {Gcd[Abs(a[1]), b[2]]}, g2 \in {Gcd[Abs(b[1]), a[2]]}}) :
            a \in {x}, b \in {y}})
RSub(x, y) == Only({RAdd(x, <<-b[1], b[2]>>) : b \in {y}})
RDiv(x, y) == Only({RMul(x, Rat(b[2], b[1])) : b \in {y}})
RNeg(x) == Only({<<-a[1], a[2]>> : a \in {x}})
RLe(x, y) == Only({a[1] * b[2] <= b[1] * a[2] : a \in {x}, b \in {y}})
RLt(x, y) == Only({a[1] * b[2] < b[1] * a[2] : a \in {x}, b \in {y}})
RAbs(x) == Only({<<Abs(a[1]), a[2]>> : a \in {x}})
RMin(x, y) == Only({IF RLe(a, b) THEN a ELSE b : a \in {x}, b \in {y}})
RMax(x, y) == Only({IF RLe(a, b) THEN b ELSE a : a \in {x}, b \in {y}})

\* The exact square root of a natural number that is a perfect square.
ISqrt(n) == Only({CHOOSE k \in 0..a : k * k = a : a \in {n}})
\* The exact square root of a rational whose terms are perfect squares.
RSqrt(x) == Only({<<ISqrt(a[1]), ISqrt(a[2])>> : a \in {x}})

(***************************************************************************)
(* Colours: RGBA vectors <<r, g, b, a>> of rationals (mathutils.Vector).   *)
(***************************************************************************)
Col(r, g, b, a) == <<r, g, b, a>>
ColZero == <<RZero, RZero, RZero, RZero>>
VAdd(c1, c2) == Only({[i \in 1..4 |-> RAdd(a[i], b[i])] : a \in {c1}, b \in {c2}})
VSub(c1, c2) == Only({[i \in 1..4 |-> RSub(a[i], b[i])] : a \in {c1}, b \in {c2}})
VScale(c, s) == Only({[i \in 1..4 |-> RMul(a[i], b)] : a \in {c}, b \in {s}})
\* Vector.lerp: c1 + fac * (c2 - c1), channel by channel.
VLerp(c1, c2, fac) ==
    Only({[i \in 1..4 |-> RAdd(a[i], RMul(f, RSub(b[i], a[i])))] :
            a \in {c1}, b \in {c2}, f \in {fac}})
\* Vector.to_3d() when ignore_alpha: the fourth channel is dropped; the model
\* keeps the vector four wide and zeroes it, which leaves differences and
\* lengths as those of the 3-vector.
To3d(c) == Only({<<a[1], a[2], a[3], RZero>> : a \in {c}})
\* Squared Euclidean length of a vector.
LengthSq(c) ==
    Only({RAdd(RAdd(RMul(a[1], a[1]), RMul(a[2], a[2])),
               RAdd(RMul(a[3], a[3]), RMul(a[4], a[4]))) : a \in {c}})
\* bl_math.clamp(x, 0.0, 1.0)
Clamp01(x) == RMax(RZero, RMin(ROne, x))
ClampCol(c) == Only({[i \in 1..4 |-> Clamp01(a[i])] : a \in {c}})

(***************************************************************************)
(* The mesh, as the bmesh calls of the source see it.  A mesh is a record  *)
(*   nv    the vertices are 1..nv                    (bm.verts)            *)
(*   faces sequence of faces, each the sequence of its vertices; the       *)
(*         loop (corner) k of face f is <<f, k>>     (bm.faces, face.loops)*)
(*   edges sequence of edges, each a set of two vertices   (bm.edges)      *)
(*   co    position of each vertex (vert.co), in the plane the mesh lies   *)
(*         in; the grid is 4 wide and 3 high, so that the distances        *)
(*         between its points that the inputs use are rational             *)
(***************************************************************************)
RECURSIVE Flatten(_)
Flatten(ss) ==
    Only({IF s = <<>> THEN <<>> ELSE Head(s) \o Flatten(Tail(s)) : s \in {ss}})

InSeq(x, s) == \E i \in 1..Len(s) : s[i] = x
IndexOf(x, s) == CHOOSE i \in 1..Len(s) : s[i] = x

RECURSIVE Dedup(_)
Dedup(ss) ==
    Only({IF s = <<>> THEN <<>>
          ELSE Only({IF InSeq(s[Len(s)], r) THEN r ELSE Append(r, s[Len(s)]) :
                       r \in {Dedup(SubSeq(s, 1, Len(s) - 1))}}) : s \in {ss}})

FaceEdges(fv) == [k \in 1..Len(fv) |-> {fv[k], fv[(k % Len(fv)) + 1]}]

\* A row of n quads: bottom vertices 1..n+1, top vertices n+2..2n+2.
StripMesh(n) ==
    LET faces == [i \in 1..n |-> <<i, i + 1, n + 2 + i, n + 1 + i>>]
    IN  [nv |-> 2 * n + 2,
         faces |-> faces,
         edges |-> Dedup(Flatten([i \in 1..n |-> FaceEdges(faces[i])])),
         co |-> [v \in 1..(2 * n + 2) |->
                   IF v <= n + 1 THEN <<4 * (v - 1), 0>> ELSE <<4 * (v - n - 2), 3>>]]

\* A chain of n edges without faces: vertices 1..n+1, none has a corner.
WireMesh(n) ==
    [nv |-> n + 1,
     faces |-> <<>>,
     edges |-> [i \in 1..n |-> {i, i + 1}],
     co |-> [v \in 1..(n + 1) |-> <<4 * (v - 1), 0>>]]

\* A strip of n triangles: vertices 1..n+2, triangle i on i, i+1, i+2.
TriStripMesh(n) ==
    LET faces == [i \in 1..n |-> <<i, i + 1, i + 2>>]
    IN  [nv |-> n + 2,
         faces |-> faces,
         edges |-> Dedup(Flatten([i \in 1..n |-> FaceEdges(faces[i])])),
         co |-> [v \in 1..(n + 2) |-> <<4 * ((v - 1) \div 2), 3 * ((v - 1) % 2)>>]]

\* A closed ring of n quads: bottom vertices 1..n, top vertices n+1..2n,
\* quad i between columns i and i+1, the last one back to column 1.  The
\* columns are laid out in a row, so the last quad lies over the others.
RingMesh(n) ==
    LET faces == [i \in 1..n |-> <<i, (i % n) + 1, n + (i % n) + 1, n + i>>]
    IN  [nv |-> 2 * n,
         faces |-> faces,
         edges |-> Dedup(Flatten([i \in 1..n |-> FaceEdges(faces[i])])),
         co |-> [v \in 1..(2 * n) |->
                   IF v <= n THEN <<4 * (v - 1), 0>> ELSE <<4 * (v - n - 1), 3>>]]

\* A row of n quads, then a pentagon on the last column and, if beyond, a
\* quad on the pentagon's edge opposite to that column.
PentaStripMesh(n, beyond) ==
    LET bl == n + 1
        tl == 2 * n + 2
        p1 == 2 * n + 3
        p2 == 2 * n + 4
        p3 == 2 * n + 5
        quads == [i \in 1..n |-> <<i, i + 1, n + 2 + i, n + 1 + i>>]
        faces == quads \o <<<<bl, p1, p2, p3, tl>>>>
                 \o (IF beyond THEN <<<<p1, p3 + 1, p3 + 2, p2>>>> ELSE <<>>)
        nv == IF beyond THEN p3 + 2 ELSE p3
    IN  [nv |-> nv,
         faces |-> faces,
         edges |-> Dedup(Flatten([i \in 1..Len(faces) |-> FaceEdges(faces[i])])),
         co |-> [v \in 1..nv |->
                   IF v <= n + 1 THEN <<4 * (v - 1), 0>>
                   ELSE IF v <= tl THEN <<4 * (v - n - 2), 3>>
                   ELSE IF v = p1 THEN <<4 * n + 4, 0>>
                   ELSE IF v = p2 THEN <<4 * n + 4, 3>>
                   ELSE IF v = p3 THEN <<4 * n + 2, 5>>
                   ELSE IF v = p3 + 1 THEN <<4 * n + 8, 0>>
                   ELSE <<4 * n + 8, 3>>]]

\* Two triangles on the edge (1, 2), both leaning to the same side of it.
KiteMesh ==
    [nv |-> 4,
     faces |-> <<<<1, 2, 3>>, <<2, 1, 4>>>>,
     edges |-> <<{1, 2}, {2, 3}, {3, 1}, {1, 4}, {4, 2}>>,
     co |-> <<<<0, 0>>, <<0, 3>>, <<4, 3>>, <<-4, 6>>>>]

\* A row of n quads, then a triangle on the last column.
CappedStripMesh(n) ==
    LET faces == [i \in 1..n |-> <<i, i + 1, n + 2 + i, n + 1 + i>>]
                 \o <<<<n + 1, 2 * n + 3, 2 * n + 2>>>>
    IN  [nv |-> 2 * n + 3,
         faces |-> faces,
         edges |-> Dedup(Flatten([i \in 1..Len(faces) |-> FaceEdges(faces[i])])),
         co |-> [v \in 1..(2 * n + 3) |->
                   IF v <= n + 1 THEN <<4 * (v - 1), 0>>
                   ELSE IF v <= 2 * n + 2 THEN <<4 * (v - n - 2), 3>>
                   ELSE <<4 * n + 4, 0>>]]

QuadMesh == StripMesh(1)

Verts(m) == 1..m.nv
Faces(m) == 1..Len(m.faces)
Edges(m) == 1..Len(m.edges)
\* face.loops
FaceLoops(m, f) == [k \in 1..Len(m.faces[f]) |-> <<f, k>>]
\* [loop for face in bm.faces for loop in face.loops]
AllLoops(m) == Flatten([f \in 1..Len(m.faces) |-> FaceLoops(m, f)])
LoopSet(m) == {AllLoops(m)[i] : i \in 1..Len(AllLoops(m))}
\* loop.vert, loop.face, loop.link_loop_next, loop.link_loop_prev, loop.edge
LoopVert(m, l) == m.faces[l[1]][l[2]]
LoopFace(l) == l[1]
LoopNext(m, l) == <<l[1], (l[2] % Len(m.faces[l[1]])) + 1>>
LoopPrev(m, l) == <<l[1], ((l[2] + Len(m.faces[l[1]]) - 2) % Len(m.faces[l[1]])) + 1>>
LoopEdge(m, l) == {LoopVert(m, l), LoopVert(m, LoopNext(m, l))}
\* edge.link_loops: the loops of the edge's radial cycle
EdgeLoops(m, e) == SelectSeq(AllLoops(m), LAMBDA l : LoopEdge(m, l) = e)
\* loop.link_loop_radial_next: the next loop around the same edge; the loop
\* itself when the edge has one face only
RadialNext(m, l) ==
    LET cyc == EdgeLoops(m, LoopEdge(m, l))
    IN  cyc[(IndexOf(l, cyc) % Len(cyc)) + 1]
\* vert.link_edges (as edges), edge.other_vert(vert)
LinkEdges(m, v) == SelectSeq(m.edges, LAMBDA e : v \in e)
OtherVert(e, v) == CHOOSE w \in e : w # v
\* vert.link_loops, vert.link_faces
LinkLoops(m, v) == SelectSeq(AllLoops(m), LAMBDA l : LoopVert(m, l) = v)
LinkFaces(m, v) == [i \in 1..Len(LinkLoops(m, v)) |-> LoopFace(LinkLoops(m, v)[i])]
\* face.verts
FaceVerts(m, f) == m.faces[f]

\* The elements a colour attribute of the domain has a value for.
Elems(m, corner) == IF corner THEN LoopSet(m) ELSE Verts(m)

(***************************************************************************)
(* State.                                                                  *)
(***************************************************************************)
VARIABLES
    mesh,            \* the edit mesh (topology and coordinates; never written)
    corner,          \* is_corner_attribute: the attributes are per face corner
    layers,          \* colour attributes by name: element -> colour
    activeAttr,      \* name of mesh.color_attributes.active_color
    vsel,            \* vertices whose select flag is set
    esel,            \* edges (as vertex pairs) whose select flag is set
    fsel,            \* faces whose select flag is set
    select_history,  \* bm.select_history[-1]: <<"NONE">>, <<"VERT", v>>, <<"FACE", f>>
    pc,              \* where the running operation is, or how it ended
    args,            \* arguments of the operation being run
    q,               \* flood fill: the queue (vert_q / face_q)
    saved,           \* the list returned by save_active_color (_stored_colors)
    sess,            \* the interactive session (operator fields)
    hist             \* history kept for the properties; never read by an action

vars == <<mesh, corner, layers, activeAttr, vsel, esel, fsel, select_history,
          pc, args, q, saved, sess, hist>>

NoHistory == <<"NONE">>
NoArgs == [op |-> "none"]
NoSession == [kind |-> "none"]
NoSaved == <<>>

\* The active colour layer, and the layers with it replaced.
ActiveBuf == layers[activeAttr]
WithActive(buf) == [layers EXCEPT ![activeAttr] = buf]

\* _get_active_vertex / _get_active_face: the last element of the selection
\* history when it is of the asked type, else None (modelled as 0).
ActiveVertex == IF select_history[1] = "VERT" THEN select_history[2] ELSE 0
ActiveFace == IF select_history[1] = "FACE" THEN select_history[2] ELSE 0

\* Sum of the colours buf[es[i]], i = 1..Len(es).
RECURSIVE SumColors(_, _)
SumColors(buf, es) ==
    Only({IF s = <<>> THEN ColZero ELSE VAdd(b[Head(s)], SumColors(b, Tail(s))) :
            b \in {buf}, s \in {es}})

\* _get_average_color: zero for no elements, else the sum over the count.
AverageColorDivide(buf, es) ==
    Only({VScale(SumColors(buf, s), Rat(1, Len(s))) : s \in {es}})
AverageColor(buf, es) ==
    Only({IF s = <<>> THEN ColZero ELSE AverageColorDivide(buf, s) : s \in {es}})

\* (a - b).length <= threshold, decided on the squares.
WithinThreshold(a, b, threshold) ==
    Only({RLe(RZero, t) /\ RLe(LengthSq(VSub(a, b)), RMul(t, t)) : t \in {threshold}})

(***************************************************************************)
(* Inputs the specifications draw from.                                    *)
(***************************************************************************)
\* Initial selections have at most this many elements set, or at most this
\* many clear.
MaxPreSel == 1

\* Colours whose pairwise distances, with and without alpha, are rational:
\* 3/5 (red only), 4/5 (alpha only), 1 (both).
Black == Col(RZero, RZero, RZero, ROne)
Reddish == Col(Rat(3, 5), RZero, RZero, ROne)
Faint == Col(RZero, RZero, RZero, Rat(1, 5))
FaintReddish == Col(Rat(3, 5), RZero, RZero, Rat(1, 5))
Palette == {Black, Reddish, Faint}
\* At distance 3/5 of Reddish and further than that from Black.
Olive == Col(Rat(3, 5), Rat(3, 5), RZero, ROne)
Thresholds == {RZero, Rat(3, 5)}

\* The selections of S: nearly none or nearly all of its elements.
Selections(S) ==
    {T \in SUBSET S : Cardinality(T) <= MaxPreSel \/ Cardinality(S \ T) <= MaxPreSel}
\* The colourings of elems: base everywhere, or everywhere but on one element.
Colorings(elems, base, others) ==
    {[e \in elems |-> base]}
    \cup {[e \in elems |-> IF e = x THEN c ELSE base] : x \in elems, c \in others}

\* A colouring that drifts away from the first element's colour in steps of
\* 3/5: the first vertex or face Black, the second Reddish, the others Olive.
DriftColoring(m, byCorner) ==
    [e \in Elems(m, byCorner) |->
       LET i == IF byCorner THEN e[1] ELSE e
       IN  IF i = 1 THEN Black ELSE IF i = 2 THEN Reddish ELSE Olive]

\* The flags of the other domains as the host keeps them: in vertex select
\* mode an edge or face is selected when all its vertices are; in face select
\* mode the vertices and edges of the selected faces are.
EdgesWithin(m, vs) == {m.edges[i] : i \in {j \in 1..Len(m.edges) : m.edges[j] \subseteq vs}}
FacesWithin(m, vs) ==
    {f \in Faces(m) : \A k \in 1..Len(m.faces[f]) : m.faces[f][k] \in vs}
VertsOfFaces(m, fs) == UNION {{m.faces[f][k] : k \in 1..Len(m.faces[f])} : f \in fs}
EdgesOfFaces(m, fs) ==
    UNION {{FaceEdges(m.faces[f])[k] : k \in 1..Len(m.faces[f])} : f \in fs}
Histories(m) ==
    {NoHistory} \cup {<<"VERT", v>> : v \in Verts(m)} \cup {<<"FACE", f>> : f \in Faces(m)}

(***************************************************************************)
(* select_linked and the two flood fills.                                  *)
(***************************************************************************)
\* The colour the flood fill compares: of a vertex its colour, of a face the
\* average of its corners; without alpha when ignore_alpha.
CompareColor(c, ignore_alpha) == IF ignore_alpha THEN To3d(c) ELSE c
VertexFloodColor(v, ignore_alpha) == CompareColor(ActiveBuf[v], ignore_alpha)
FaceFloodColor(f, ignore_alpha) ==
    CompareColor(AverageColor(ActiveBuf, FaceLoops(mesh, f)), ignore_alpha)

\* The neighbours the loop over a dequeued element walks, in order.
VertexNeighbors(v) ==
    [i \in 1..Len(LinkEdges(mesh, v)) |-> OtherVert(LinkEdges(mesh, v)[i], v)]
FaceNeighborsByCorner(f) ==
    Flatten([k \in 1..Len(FaceVerts(mesh, f)) |-> LinkFaces(mesh, FaceVerts(mesh, f)[k])])
FaceNeighborsByEdge(f) ==
    LET ls == SelectSeq(FaceLoops(mesh, f), LAMBDA l : RadialNext(mesh, l) # l)
    IN  [i \in 1..Len(ls) |-> LoopFace(RadialNext(mesh, ls[i]))]
FaceNeighbors(f, check_corners) ==
    IF check_corners THEN FaceNeighborsByCorner(f) ELSE FaceNeighborsByEdge(f)

\* "if other.select == select: continue"
FloodSkipNever(flag, select) == FALSE
FloodSkip(flag, select) == flag = select

\* The history counters saturate, so that they stay bounded on every run.
Bump(n, cap) == IF n < cap THEN n + 1 ELSE n

\* FloodOne comparing with the colour of the element taken from the queue
\* instead of the seed's.
FloodOneFromNeighbor(st, o, seedColor, colorOf) ==
    IF FloodSkip(o \in st.sel, args.select) THEN st
    ELSE IF WithinThreshold(colorOf[o], colorOf[Head(q)], args.threshold)
         THEN [sel |-> IF args.select THEN st.sel \cup {o} ELSE st.sel \ {o},
               q |-> Append(st.q, o),
               same |-> st.same \/ ((o \in st.sel) = args.select),
               puts |-> Bump(st.puts, 2 * (mesh.nv + 2))]
         ELSE st

\* One pass of the for loop's body, for the neighbour o: skipped when its
\* flag has the value already, else absorbed (flag written, put in the queue)
\* when its colour is within the threshold of the seed's.  st holds the flags
\* (sel), the queue (q) and the history (same: a flag was written that had the
\* value already; puts: elements put in the queue).
FloodOne(st, o, seedColor, colorOf) ==
    IF FloodSkip(o \in st.sel, args.select) THEN st
    ELSE IF WithinThreshold(colorOf[o], seedColor, args.threshold)
         THEN [sel |-> IF args.select THEN st.sel \cup {o} ELSE st.sel \ {o},
               q |-> Append(st.q, o),
               same |-> st.same \/ ((o \in st.sel) = args.select),
               puts |-> Bump(st.puts, 2 * (mesh.nv + 2))]
         ELSE st

\* The for loop over the neighbours nb[i..].
RECURSIVE FloodNeighbors(_, _, _, _, _)
FloodNeighbors(nb, i, st, seedColor, colorOf) ==
    Only({IF j > Len(n) THEN s
          ELSE FloodNeighbors(n, j + 1, FloodOne(s, n[j], c, f), c, f) :
            n \in {nb}, j \in {i}, s \in {st}, c \in {seedColor}, f \in {colorOf}})

\* vert_q.get() / face_q.get(): what is left of the queue after taking its head.
QueueGetKeep(queue) == queue
QueueGet(queue) == Tail(queue)

FloodHist0(elems) ==
    [visits |-> [e \in elems |-> 0], same |-> FALSE, puts |-> 1]

\* select_linked up to the first loop test: the active element is looked up,
\* ContextException is raised without one, else the seed colour is read and
\* the seed is put in the queue.
SelectLinkedBegin ==
    /\ pc = "idle"
    /\ \E check_corners \in (IF corner THEN BOOLEAN ELSE {FALSE}),
          threshold \in Thresholds, ignore_alpha \in BOOLEAN, deselect \in BOOLEAN :
         LET seed == IF corner THEN ActiveFace ELSE ActiveVertex
         IN  IF seed = 0
             THEN /\ pc' = "error"
                  /\ args' = [op |-> "select_linked", error |-> "ContextException"]
                  /\ UNCHANGED <<q, hist>>
             ELSE /\ pc' = "flood"
                  /\ args' = [op |-> "select_linked",
                              check_corners |-> check_corners,
                              threshold |-> threshold,
                              ignore_alpha |-> ignore_alpha,
                              select |-> ~deselect,
                              seed |-> seed,
                              color |-> IF corner
                                        THEN FaceFloodColor(seed, ignore_alpha)
                                        ELSE VertexFloodColor(seed, ignore_alpha)]
                  /\ q' = <<seed>>
                  /\ hist' = [hist EXCEPT !.flood =
                                FloodHist0(IF corner THEN Faces(mesh) ELSE Verts(mesh))]
    /\ UNCHANGED <<mesh, corner, layers, activeAttr, vsel, esel, fsel,
                   select_history, saved, sess>>

\* What one round of the while loop leaves, for the element taken from the
\* queue: the flags, the queue and the history.
VertexRound ==
    FloodNeighbors(VertexNeighbors(Head(q)), 1,
        [sel |-> vsel, q |-> QueueGet(q),
         same |-> hist.flood.same, puts |-> hist.flood.puts],
        args.color,
        [o \in Verts(mesh) |-> VertexFloodColor(o, args.ignore_alpha)])
FaceRound ==
    FloodNeighbors(FaceNeighbors(Head(q), args.check_corners), 1,
        [sel |-> fsel, q |-> QueueGet(q),
         same |-> hist.flood.same, puts |-> hist.flood.puts],
        args.color,
        [o \in Faces(mesh) |-> FaceFloodColor(o, args.ignore_alpha)])
FloodHistAfter(st) ==
    [visits |-> [hist.flood.visits EXCEPT ![Head(q)] = Bump(@, 3)],
     same |-> st.same, puts |-> st.puts]

\* One round of "while vert_q.qsize() != 0" in _flood_fill_select_vertex.
FloodStepVertex ==
    /\ pc = "flood"
    /\ ~corner
    /\ q # <<>>
    /\ \E st \in {VertexRound} :
         /\ vsel' = st.sel
         /\ q' = st.q
         /\ hist' = [hist EXCEPT !.flood = FloodHistAfter(st)]
    /\ UNCHANGED <<mesh, corner, layers, activeAttr, esel, fsel, select_history,
                   pc, args, saved, sess>>

\* One round of "while face_q.qsize() != 0" in _flood_fill_select_face.
FloodStepFace ==
    /\ pc = "flood"
    /\ corner
    /\ q # <<>>
    /\ \E st \in {FaceRound} :
         /\ fsel' = st.sel
         /\ q' = st.q
         /\ hist' = [hist EXCEPT !.flood = FloodHistAfter(st)]
    /\ UNCHANGED <<mesh, corner, layers, activeAttr, vsel, esel, select_history,
                   pc, args, saved, sess>>

\* The queue is empty: the loop ends, update_edit_mesh, return.
SelectLinkedEnd ==
    /\ pc = "flood"
    /\ q = <<>>
    /\ pc' = "done"
    /\ UNCHANGED <<mesh, corner, layers, activeAttr, vsel, esel, fsel,
                   select_history, args, q, saved, sess, hist>>

(***************************************************************************)
(* Specification SpecLinked: select_linked, run once on any mesh,          *)
(* colouring, selection and active element.                                *)
(***************************************************************************)
LinkedMeshes ==
    {QuadMesh} \cup {TriStripMesh(n) : n \in 1..MaxTris}
               \cup {WireMesh(n) : n \in 1..MaxWire}

InitLinked ==
    /\ mesh \in LinkedMeshes
    /\ corner \in BOOLEAN
    /\ activeAttr = "Col"
    /\ layers \in {[n \in {"Col"} |-> c] :
                     c \in Colorings(Elems(mesh, corner), Black, Palette \ {Black})
                           \cup {DriftColoring(mesh, corner)}}
    /\ \/ /\ ~corner
          /\ vsel \in Selections(Verts(mesh))
          /\ esel = EdgesWithin(mesh, vsel)
          /\ fsel = FacesWithin(mesh, vsel)
       \/ /\ corner
          /\ fsel \in Selections(Faces(mesh))
          /\ vsel = VertsOfFaces(mesh, fsel)
          /\ esel = EdgesOfFaces(mesh, fsel)
    /\ select_history \in Histories(mesh)
    /\ pc = "idle"
    /\ args = NoArgs
    /\ q = <<>>
    /\ saved = NoSaved
    /\ sess = NoSession
    /\ hist = [flood |-> FloodHist0({}),
               pre |-> [layers |-> layers, vsel |-> vsel, esel |-> esel, fsel |-> fsel,
                        walked |-> IF corner THEN fsel ELSE vsel]]

NextLinked ==
    \/ SelectLinkedBegin
    \/ FloodStepVertex
    \/ FloodStepFace
    \/ SelectLinkedEnd

SpecLinked == InitLinked /\ [][NextLinked]_vars

\* The call runs to its end: a Python call that has started keeps executing.
FairLinked == SpecLinked /\ WF_vars(NextLinked)

(***************************************************************************)
(* Properties of the flood fills (SpecLinked, FairLinked).                 *)
(***************************************************************************)
InFlood == pc \in {"flood", "done"}
WalkedElems == IF corner THEN Faces(mesh) ELSE Verts(mesh)
WalkedSel == IF corner THEN fsel ELSE vsel

\* C4, as claimed: the flood fill never writes the flag of an element whose
\* flag already equals selectValue, never takes the same element from the
\* queue twice, and puts at most as many elements in the queue as the walked
\* domain has.
C4_NeverVisitsTwice ==
    InFlood =>
        /\ ~hist.flood.same
        /\ \A e \in WalkedElems : hist.flood.visits[e] <= 1
        /\ hist.flood.puts <= Cardinality(WalkedElems)

\* C4, amended: no flag that already equals selectValue is written; every
\* element but the seed is taken from the queue at most once, the seed at most
\* twice, and a second time only when its own flag differed from selectValue
\* at the call; at most one element more than the walked domain has is put in
\* the queue.
C4_VisitsBounded ==
    InFlood =>
        /\ ~hist.flood.same
        /\ \A e \in WalkedElems \ {args.seed} : hist.flood.visits[e] <= 1
        /\ hist.flood.visits[args.seed] <= 2
        /\ hist.flood.visits[args.seed] = 2 =>
             ((args.seed \in hist.pre.walked) # args.select)
        /\ hist.flood.puts <= Cardinality(WalkedElems) + 1

\* A deselecting fill that took its seed from the queue twice and another
\* element once.
C4_Witness ==
    /\ pc = "done"
    /\ hist.flood.visits[args.seed] = 2
    /\ \E e \in WalkedElems \ {args.seed} : hist.flood.visits[e] = 1

\* C5: the vertex and the face flood fill terminate: every call of
\* select_linked comes to its end (returns, or raises without an active
\* element).
C5_FloodTerminates == <>(pc \in {"done", "error"})

\* A fill over a mesh with a cycle (a quad strip) that has ended after taking
\* every element of the walked domain from the queue.
C5_Witness ==
    /\ pc = "done"
    /\ mesh.faces # <<>>
    /\ \A e \in WalkedElems : hist.flood.visits[e] >= 1
    /\ Cardinality(WalkedElems) >= 2

\* The vertices reachable from v along edges.
RECURSIVE ReachFrom(_, _)
ReachFrom(m, S) ==
    LET T == S \cup {w \in Verts(m) : \E i \in 1..Len(m.edges) :
                        w \in m.edges[i] /\ m.edges[i] \cap S # {}}
    IN  IF T = S THEN S ELSE ReachFrom(m, T)
Connected(m) == ReachFrom(m, {1}) = Verts(m)
UniformColor == \A e, f \in DOMAIN ActiveBuf : ActiveBuf[e] = ActiveBuf[f]

\* C6, as claimed: on a connected point-domain mesh of one colour,
\* select_linked with threshold 0 and deselect off ends with every vertex
\* selected, whatever the seed (taken here to be a selected vertex, as the
\* host's active vertex usually is).
C6_SelectsWholeComponent ==
    (/\ pc = "done"
     /\ ~corner
     /\ args.seed \in hist.pre.vsel
     /\ Connected(mesh)
     /\ UniformColor
     /\ args.threshold = RZero
     /\ args.select)
    => vsel = Verts(mesh)

\* The elements whose flag differs from the one they had before the call,
\* the neighbours the flood fill walks from an element, and the elements a
\* chain of changed neighbours joins to the seed.
FloodChanged == {e \in WalkedElems : (e \in WalkedSel) # (e \in hist.pre.walked)}
FloodAdjacent(e) ==
    LET nb == IF corner THEN FaceNeighbors(e, args.check_corners) ELSE VertexNeighbors(e)
    IN  {nb[i] : i \in 1..Len(nb)}
RECURSIVE ChainedTo(_)
ChainedTo(S) ==
    LET T == S \cup {e \in FloodChanged : \E d \in S : e \in FloodAdjacent(d)}
    IN  IF T = S THEN S ELSE ChainedTo(T)
\* The colour compared for an element, read from the layer as it was before
\* the call.
FloodColorBefore(e) ==
    CompareColor(IF corner THEN AverageColor(hist.pre.layers["Col"], FaceLoops(mesh, e))
                 ELSE hist.pre.layers["Col"][e], args.ignore_alpha)

\* C29: at every point of a flood fill, an element whose flag has changed is
\* joined to the seed by a chain of adjacent elements whose flags have all
\* changed, has the flag value asked for, and its colour (of a face: the
\* average of its corners) is within the threshold of the seed's colour as
\* it was at the start of the call; no colour value has changed.
C29_FloodFrame ==
    InFlood =>
        /\ FloodChanged \subseteq ChainedTo({args.seed})
        /\ \A e \in FloodChanged :
              /\ (e \in WalkedSel) = args.select
              /\ WithinThreshold(FloodColorBefore(e), FloodColorBefore(args.seed),
                                 args.threshold)
        /\ layers = hist.pre.layers
\* A finished flood fill changed an element that is not next to the seed, and
\* left alone an element next to a changed one whose colour is within the
\* threshold of that neighbour's but not of the seed's.
C29_Witness ==
    /\ pc = "done"
    /\ \E e \in FloodChanged : e \notin FloodAdjacent(args.seed) /\ e # args.seed
    /\ \E d \in FloodChanged : \E e \in FloodAdjacent(d) \ FloodChanged :
          /\ (e \in WalkedSel) # args.select
          /\ WithinThreshold(FloodColorBefore(e), FloodColorBefore(d), args.threshold)
          /\ ~WithinThreshold(FloodColorBefore(e), FloodColorBefore(args.seed),
                              args.threshold)

(***************************************************************************)
(* Blend and interpolation functions (color_utils.py).                     *)
(***************************************************************************)
\* outcol.w = col1.w
WithAlphaOf(out, col1) == Only({<<o[1], o[2], o[3], c[4]>> : o \in {out}, c \in {col1}})

\* blend_mix without its second line
BlendMixLerpOnly(fac, col1, col2) == VLerp(col1, col2, fac)
BlendMix(fac, col1, col2) == WithAlphaOf(VLerp(col1, col2, fac), col1)
BlendAdd(fac, col1, col2) ==
    Only({WithAlphaOf(VLerp(a, VAdd(a, col2), fac), a) : a \in {col1}})
\* BLEND_MODES[blend_mode][0]
BlendModes == {"MIX", "ADD"}
Blend(mode, fac, col1, col2) ==
    IF mode = "MIX" THEN BlendMix(fac, col1, col2) ELSE BlendAdd(fac, col1, col2)

\* Vectors of one value, and the component-wise product (Vector * Vector).
VFill(x) == <<x, x, x, x>>
VOne == VFill(ROne)
VMul(c1, c2) == Only({[i \in 1..4 |-> RMul(a[i], b[i])] : a \in {c1}, b \in {c2}})
\* absv, maxv of two vectors
Absv(col) == Only({[i \in 1..4 |-> RAbs(a[i])] : a \in {col}})
Maxv(c1, c2) == Only({[i \in 1..4 |-> RMax(a[i], b[i])] : a \in {c1}, b \in {c2}})
\* minv of two vectors: it reads and sets the attributes x, y, z and w of
\* its first argument; a vector of fewer than four components has no w and
\* the read raises AttributeError.  MinvOf is the value it is to return.
MinvEnd(size) == IF size >= 4 THEN "done" ELSE "AttributeError"
MinvOf(c1, c2) == Only({[i \in 1..4 |-> RMin(a[i], b[i])] : a \in {c1}, b \in {c2}})
\* A function of the red, green and blue of two colours, channel by channel,
\* on a copy of col1: the alpha is that of col1.
PerChannel(Op(_, _, _), fac, col1, col2) ==
    Only({[i \in 1..4 |-> IF i = 4 THEN a[4] ELSE Op(f, a[i], b[i])] :
            f \in {fac}, a \in {col1}, b \in {col2}})

BlendMultiply(fac, col1, col2) ==
    Only({WithAlphaOf(VLerp(a, VMul(a, col2), fac), a) : a \in {col1}})
BlendScreen(fac, col1, col2) ==
    Only({WithAlphaOf(
            VSub(VOne, VMul(VAdd(VFill(RSub(ROne, f)), VScale(VSub(VOne, col2), f)),
                            VSub(VOne, a))), a) : f \in {fac}, a \in {col1}})
OverlayChannel(fac, c1, c2) ==
    IF RLt(c1, RHalf)
    THEN RMul(c1, RAdd(RSub(ROne, fac), RMul(RMul(R(2), fac), c2)))
    ELSE RSub(ROne, RMul(RAdd(RSub(ROne, fac), RMul(RMul(R(2), fac), RSub(ROne, c2))),
                         RSub(ROne, c1)))
BlendOverlay(fac, col1, col2) == PerChannel(OverlayChannel, fac, col1, col2)
BlendSubtract(fac, col1, col2) ==
    Only({WithAlphaOf(VLerp(a, VSub(a, col2), fac), a) : a \in {col1}})
DivideChannel(fac, c1, c2) ==
    IF c2 # RZero
    THEN RAdd(RMul(RSub(ROne, fac), c1), RDiv(RMul(fac, c1), c2))
    ELSE c1
BlendDivide(fac, col1, col2) == PerChannel(DivideChannel, fac, col1, col2)
BlendDifference(fac, col1, col2) ==
    Only({WithAlphaOf(VLerp(a, Absv(VSub(a, col2)), fac), a) : a \in {col1}})
\* The lerp of blend_exclusion, without maxv.
ExclusionLerp(fac, col1, col2) ==
    Only({VLerp(a, VSub(VAdd(a, b), VMul(VScale(a, R(2)), b)), fac) :
            a \in {col1}, b \in {col2}})
BlendExclusion(fac, col1, col2) ==
    WithAlphaOf(Maxv(ExclusionLerp(fac, col1, col2), ColZero), col1)
\* blend_darken as written, were minv to return; blend_lighten.
BlendDarken(fac, col1, col2) ==
    Only({WithAlphaOf(VLerp(a, MinvOf(a, col2), fac), a) : a \in {col1}})
BlendLighten(fac, col1, col2) ==
    Only({WithAlphaOf(VLerp(a, Maxv(a, col2), fac), a) : a \in {col1}})
DodgeChannel(fac, c1, c2) ==
    IF c1 = RZero THEN c1
    ELSE Only({IF RLe(tmp, RZero) THEN ROne
               ELSE IF RLt(ROne, RDiv(c1, tmp)) THEN ROne
               ELSE RDiv(c1, tmp) : tmp \in {RSub(ROne, RMul(fac, c2))}})
BlendDodge(fac, col1, col2) == PerChannel(DodgeChannel, fac, col1, col2)
BurnChannel(fac, c1, c2) ==
    Only({IF RLe(tmp, RZero) THEN RZero
          ELSE Only({IF RLt(t, RZero) THEN RZero
                     ELSE IF RLt(ROne, t) THEN ROne
                     ELSE t : t \in {RSub(ROne, RDiv(RSub(ROne, c1), tmp))}}) :
            tmp \in {RAdd(RSub(ROne, fac), RMul(fac, c2))}})
BlendBurn(fac, col1, col2) == PerChannel(BurnChannel, fac, col1, col2)

\* x / (y + 1e-20): in floating point the 1e-20 changes no divisor that is
\* not 0, and 0 / 1e-20 is 0.  (x / 1e-20 for x # 0 is not representable
\* here; no colour the specifications draw leads to it.)
DivEps(x, y) == IF x = RZero /\ y = RZero THEN RZero ELSE RDiv(x, y)

\* rgb_to_hsv: the two conditional swaps, then hue, saturation and value.
RgbToHsv(rgba) ==
    LET s1 == IF RLt(rgba[2], rgba[3])
              THEN [r |-> rgba[1], g |-> rgba[3], b |-> rgba[2], k |-> R(-1)]
              ELSE [r |-> rgba[1], g |-> rgba[2], b |-> rgba[3], k |-> RZero]
        Swap2(t) == IF RLt(t.r, t.g)
                    THEN [r |-> t.g, g |-> t.r, b |-> t.b,
                          k |-> RSub(Rat(-2, 6), t.k), min_gb |-> RMin(t.r, t.b)]
                    ELSE [r |-> t.r, g |-> t.g, b |-> t.b, k |-> t.k, min_gb |-> t.b]
        Hsv(t, chroma) ==
            <<RAbs(RAdd(t.k, DivEps(RSub(t.g, t.b), RMul(R(6), chroma)))),
              DivEps(chroma, t.r), t.r, rgba[4]>>
    IN  Only({Hsv(t, RSub(t.r, t.min_gb)) : t \in {Swap2(s1)}})

\* hsv_to_rgb
HsvToRgb(hsva) ==
    LET Chan(n, s, v) == RMul(RAdd(RMul(RSub(n, ROne), s), ROne), v)
    IN  Only({<<Chan(Clamp01(RSub(RAbs(RSub(h6, R(3))), ROne)), hsva[2], hsva[3]),
                Chan(Clamp01(RSub(R(2), RAbs(RSub(h6, R(2))))), hsva[2], hsva[3]),
                Chan(Clamp01(RSub(R(2), RAbs(RSub(h6, R(4))))), hsva[2], hsva[3]),
                hsva[4]>> : h6 \in {RMul(hsva[1], R(6))}})

\* facm * a + fac * b
Weighted(fac, a, b) == RAdd(RMul(RSub(ROne, fac), a), RMul(fac, b))

BlendHue(fac, col1, col2) ==
    Only({IF hsv2[2] = RZero THEN col1
          ELSE Only({WithAlphaOf(VLerp(col1, HsvToRgb(<<hsv2[1], hsv[2], hsv[3], hsv[4]>>),
                                       fac), col1) : hsv \in {RgbToHsv(col1)}}) :
            hsv2 \in {RgbToHsv(col2)}})
BlendSaturation(fac, col1, col2) ==
    Only({IF hsv[2] = RZero THEN col1
          ELSE Only({HsvToRgb(<<hsv[1], Weighted(fac, hsv[2], hsv2[2]), hsv[3], hsv[4]>>) :
                       hsv2 \in {RgbToHsv(col2)}}) :
            hsv \in {RgbToHsv(col1)}})
BlendValue(fac, col1, col2) ==
    Only({HsvToRgb(<<hsv[1], hsv[2], Weighted(fac, hsv[3], hsv2[3]), hsv[4]>>) :
            hsv \in {RgbToHsv(col1)}, hsv2 \in {RgbToHsv(col2)}})
BlendColor(fac, col1, col2) ==
    Only({IF hsv2[2] = RZero THEN col1
          ELSE Only({WithAlphaOf(VLerp(col1, HsvToRgb(<<hsv2[1], hsv2[2], hsv[3], hsv[4]>>),
                                       fac), col1) : hsv \in {RgbToHsv(col1)}}) :
            hsv2 \in {RgbToHsv(col2)}})
BlendSoftLight(fac, col1, col2) ==
    Only({WithAlphaOf(
            VAdd(VScale(a, RSub(ROne, f)),
                 VScale(VAdd(VMul(VMul(VSub(VOne, a), b), a),
                             VMul(a, VSub(VOne, VMul(VSub(VOne, b), VSub(VOne, a))))), f)),
            a) : f \in {fac}, a \in {col1}, b \in {col2}})
BlendLinearLight(fac, col1, col2) ==
    Only({WithAlphaOf(VAdd(a, VScale(VScale(VSub(col2, VFill(RHalf)), R(2)), fac)), a) :
            a \in {col1}})
\* The new alpha on a copy of col1.
WithAlpha(col1, w) == Only({<<a[1], a[2], a[3], w>> : a \in {col1}})
BlendAlphaAdd(fac, col1, col2) ==
    Only({WithAlpha(col1, RAdd(w, RMul(fac, RSub(RAdd(w, col2[4]), w)))) : w \in {col1[4]}})
BlendAlphaSubtract(fac, col1, col2) ==
    Only({WithAlpha(col1, RAdd(w, RMul(fac, RSub(RSub(w, col2[4]), w)))) : w \in {col1[4]}})
BlendAlphaMix(fac, col1, col2) ==
    Only({WithAlpha(col1, RAdd(w, RMul(fac, RSub(col2[4], w)))) : w \in {col1[4]}})

\* The keys of BLEND_MODES, and the three of them that touch the alpha only.
AllBlendModes ==
    {"ALPHA_ADD", "ALPHA_MIX", "ALPHA_SUBTRACT", "VALUE", "COLOR", "SATURATION", "HUE",
     "DIVIDE", "SUBTRACT", "EXCLUSION", "DIFFERENCE", "LINEAR_LIGHT", "SOFT_LIGHT",
     "OVERLAY", "ADD", "COLOR_DODGE", "SCREEN", "LIGHTEN", "COLOR_BURN", "MULTIPLY",
     "DARKEN", "MIX"}
AlphaBlendModes == {"ALPHA_ADD", "ALPHA_MIX", "ALPHA_SUBTRACT"}

\* BLEND_MODES[mode][0](fac, col1, col2): how the call ends and the colour it
\* returns.  blend_darken passes col1.xyz and col2.xyz, of three components,
\* to minv.
BlendCall(mode, fac, col1, col2) ==
    CASE mode = "ALPHA_ADD" -> [end |-> "done", col |-> BlendAlphaAdd(fac, col1, col2)]
      [] mode = "ALPHA_MIX" -> [end |-> "done", col |-> BlendAlphaMix(fac, col1, col2)]
      [] mode = "ALPHA_SUBTRACT" ->
            [end |-> "done", col |-> BlendAlphaSubtract(fac, col1, col2)]
      [] mode = "VALUE" -> [end |-> "done", col |-> BlendValue(fac, col1, col2)]
      [] mode = "COLOR" -> [end |-> "done", col |-> BlendColor(fac, col1, col2)]
      [] mode = "SATURATION" -> [end |-> "done", col |-> BlendSaturation(fac, col1, col2)]
      [] mode = "HUE" -> [end |-> "done", col |-> BlendHue(fac, col1, col2)]
      [] mode = "DIVIDE" -> [end |-> "done", col |-> BlendDivide(fac, col1, col2)]
      [] mode = "SUBTRACT" -> [end |-> "done", col |-> BlendSubtract(fac, col1, col2)]
      [] mode = "EXCLUSION" -> [end |-> "done", col |-> BlendExclusion(fac, col1, col2)]
      [] mode = "DIFFERENCE" -> [end |-> "done", col |-> BlendDifference(fac, col1, col2)]
      [] mode = "LINEAR_LIGHT" -> [end |-> "done", col |-> BlendLinearLight(fac, col1, col2)]
      [] mode = "SOFT_LIGHT" -> [end |-> "done", col |-> BlendSoftLight(fac, col1, col2)]
      [] mode = "OVERLAY" -> [end |-> "done", col |-> BlendOverlay(fac, col1, col2)]
      [] mode = "ADD" -> [end |-> "done", col |-> BlendAdd(fac, col1, col2)]
      [] mode = "COLOR_DODGE" -> [end |-> "done", col |-> BlendDodge(fac, col1, col2)]
      [] mode = "SCREEN" -> [end |-> "done", col |-> BlendScreen(fac, col1, col2)]
      [] mode = "LIGHTEN" -> [end |-> "done", col |-> BlendLighten(fac, col1, col2)]
      [] mode = "COLOR_BURN" -> [end |-> "done", col |-> BlendBurn(fac, col1, col2)]
      [] mode = "MULTIPLY" -> [end |-> "done", col |-> BlendMultiply(fac, col1, col2)]
      [] mode = "DARKEN" ->
            IF MinvEnd(3) = "done"
            THEN [end |-> "done", col |-> BlendDarken(fac, col1, col2)]
            ELSE [end |-> MinvEnd(3), col |-> col1]
      [] mode = "MIX" -> [end |-> "done", col |-> BlendMix(fac, col1, col2)]

MixRgb(fac, col1, col2) == VLerp(col1, col2, fac)
MixRgbSmoothstep(fac, col1, col2) ==
    Only({VLerp(col1, col2, RSub(RMul(R(3), RMul(f, f)),
                                 RMul(RMul(R(2), RMul(f, f)), f))) : f \in {fac}})
\* RGB_INTP_MODES[interpolation_type][0]
InterpModes == {"LINEAR", "EASE"}
Interp(mode, fac, col1, col2) ==
    IF mode = "LINEAR" THEN MixRgb(fac, col1, col2) ELSE MixRgbSmoothstep(fac, col1, col2)

\* _HUE_INTP_NEAR, _FAR, _CW, _CCW
HueInterpTypes == {"NEAR", "FAR", "CW", "CCW"}
\* HUE_MOD, HUE_INTERP of hue_interp
HueMod(h) == IF RLt(h, ROne) THEN h ELSE RSub(h, ROne)
HueLerp(fac, h_a, h_b) == RAdd(RMul(RSub(ROne, fac), h_a), RMul(fac, h_b))
\* The mode with the tests of Clockwise and Counter-clockwise exchanged.
HueModeSwapped(intp_type, h1, h2) ==
    CASE intp_type = "CW" -> (IF RLt(h1, h2) THEN 1 ELSE 0)
      [] intp_type = "CCW" -> (IF RLt(h2, h1) THEN 2 ELSE 0)
      [] OTHER -> 0
\* mode of hue_interp: 0 direct, 1 with h1 + 1, 2 with h2 + 1
HueMode(intp_type, h1, h2) ==
    CASE intp_type = "NEAR" ->
           (IF RLt(h1, h2) /\ RLt(RHalf, RSub(h2, h1)) THEN 1
            ELSE IF RLt(h2, h1) /\ RLt(RSub(h2, h1), RNeg(RHalf)) THEN 2
            ELSE 0)
      [] intp_type = "FAR" ->
           (IF h1 = h2 THEN 1
            ELSE IF RLt(h1, h2) /\ RLt(RSub(h2, h1), RHalf) THEN 1
            ELSE IF RLt(h2, h1) /\ RLt(RNeg(RHalf), RSub(h2, h1)) THEN 2
            ELSE 0)
      [] intp_type = "CW" -> (IF RLt(h2, h1) THEN 2 ELSE 0)
      [] intp_type = "CCW" -> (IF RLt(h1, h2) THEN 1 ELSE 0)
\* hue_interp(intp_type, fac, h1, h2)
HueInterp(intp_type, fac, h1, h2) ==
    Only({Only({CASE mode = 0 -> HueLerp(fac, a, b)
                  [] mode = 1 -> HueMod(HueLerp(fac, RAdd(a, ROne), b))
                  [] mode = 2 -> HueMod(HueLerp(fac, a, RAdd(b, ROne))) :
                  mode \in {HueMode(intp_type, a, b)}}) :
            a \in {HueMod(h1)}, b \in {HueMod(h2)}})

(***************************************************************************)
(* paint_gradient (gradient.py).                                           *)
(***************************************************************************)
Sub2(a, b) == <<a[1] - b[1], a[2] - b[2]>>
Dot2(a, b) == a[1] * b[1] + a[2] * b[2]
LengthSquared(a) == Dot2(a, a)
IsSquare(n) == \E k \in 0..n : k * k = n
\* Vector.length, of a vector whose squared length is a perfect square
Length(a) == ISqrt(LengthSquared(a))

\* geometry.intersect_point_line(pt, l0, l1)[1]: the parameter of the point's
\* projection on the line, 0 at l0 and 1 at l1.
LineFactor(pt, l0, l1) ==
    Only({Rat(Dot2(Sub2(pt, l0), d), Dot2(d, d)) : d \in {Sub2(l1, l0)}})

Tolerance == Rat(1, 10000)
\* _distance_to_line, _distance_to_radius
DistanceToLine(co, l0, l1) ==
    Only({IF RLt(RAbs(d), Tolerance) THEN RZero ELSE d : d \in {LineFactor(co, l0, l1)}})
DistanceToRadius(co, center, radius_sqrt) ==
    Only({IF RLt(RAbs(d), Tolerance) THEN RZero ELSE d :
            d \in {R(radius_sqrt - LengthSquared(Sub2(center, co)))}})

ExtendModes == {"OFF", "FORWARD", "BACKWARD", "BOTH"}
SharpModes == {"OFF", "VERTEX", "FACE"}
GradientTypes == {"LINEAR", "RADIAL"}
\* bool(member) of an Enum that defines no __bool__: every member is true
EnumTruth(member) == TRUE

\* _check_face_bounds_linear, _check_face_bounds_radial
CheckFaceBoundsLinear(f, l0, l1) ==
    \A k \in 1..Len(mesh.faces[f]) :
        ~RLt(DistanceToLine(mesh.co[mesh.faces[f][k]], l0, l1), RZero)
CheckFaceBoundsRadial(f, l0, radius_squared) ==
    \A k \in 1..Len(mesh.faces[f]) :
        ~RLt(DistanceToRadius(mesh.co[mesh.faces[f][k]], l0, radius_squared), RZero)

\* _check_face_loop_bounds_linear
CheckFaceLoopBoundsLinear(loop, l0, l1, sharp_bounds) ==
    LET dist == DistanceToLine(mesh.co[LoopVert(mesh, loop)], l0, l1)
        distPrev == DistanceToLine(mesh.co[LoopVert(mesh, LoopPrev(mesh, loop))], l0, l1)
        distNext == DistanceToLine(mesh.co[LoopVert(mesh, LoopNext(mesh, loop))], l0, l1)
    IN  IF RLt(dist, RZero) THEN FALSE
        ELSE IF ~sharp_bounds THEN TRUE
        ELSE IF dist = RZero
             THEN ~RLt(IF distPrev = RZero THEN distNext ELSE distPrev, RZero)
             ELSE TRUE

\* _check_face_loop_bounds_radial
CheckFaceLoopBoundsRadial(loop, l0, radius_squared, sharp_bounds) ==
    LET dist == DistanceToRadius(mesh.co[LoopVert(mesh, loop)], l0, radius_squared)
        distPrev == DistanceToRadius(mesh.co[LoopVert(mesh, LoopPrev(mesh, loop))],
                                     l0, radius_squared)
        distNext == DistanceToRadius(mesh.co[LoopVert(mesh, LoopNext(mesh, loop))],
                                     l0, radius_squared)
    IN  IF RLt(dist, RZero) THEN FALSE
        ELSE IF ~sharp_bounds THEN TRUE
        ELSE IF dist = RZero
             THEN RLt(RZero, distPrev) \/ RLt(RZero, distNext)
             ELSE TRUE

\* [x for x in seq if x.select]
SeqOf(n) == [i \in 1..n |-> i]
SelectedOf(seq, sel) == SelectSeq(seq, LAMBDA x : x \in sel)
\* [loop for face in faces for loop in face.loops]
LoopsOfFaces(faces) == Flatten([i \in 1..Len(faces) |-> FaceLoops(mesh, faces[i])])

\* _filter_loops_from_faces: the loops of faces that the extend filter keeps.
FilterLoopsFromFaces(faces, boundary_sharp_mode, extend_mode, gradient_type, l0, l1) ==
    LET radius_squared == LengthSquared(Sub2(l1, l0))
        sharp_bounds == boundary_sharp_mode # "OFF"
        check_forward == extend_mode \in {"BACKWARD", "BOTH"}
        check_backward == extend_mode \in {"FORWARD", "BOTH"}
        kept == IF boundary_sharp_mode # "FACE" THEN faces
                ELSE IF gradient_type = "LINEAR"
                     THEN SelectSeq(faces, LAMBDA f :
                            /\ (check_forward \/ CheckFaceBoundsLinear(f, l0, l1))
                            /\ (check_backward \/ CheckFaceBoundsLinear(f, l1, l0)))
                     ELSE IF check_forward
                          THEN SelectSeq(faces, LAMBDA f :
                                 CheckFaceBoundsRadial(f, l0, radius_squared))
                          ELSE faces
    IN  IF gradient_type = "LINEAR"
        THEN SelectSeq(LoopsOfFaces(kept), LAMBDA l :
               /\ (check_forward \/ CheckFaceLoopBoundsLinear(l, l0, l1, sharp_bounds))
               /\ (check_backward \/ CheckFaceLoopBoundsLinear(l, l1, l0, sharp_bounds)))
        ELSE IF check_forward
             THEN SelectSeq(LoopsOfFaces(kept), LAMBDA l :
                    CheckFaceLoopBoundsRadial(l, l0, radius_squared, sharp_bounds))
             ELSE LoopsOfFaces(kept)

\* The point-domain test of lines 91-103: the vertex is within the line's
\* extent (LINEAR) or within the radius (RADIAL).
VertInRange(v, gradient_type, l0, l1) ==
    IF gradient_type = "LINEAR"
    THEN ~(RLt(LineFactor(mesh.co[v], l0, l1), RZero)
           \/ RLt(ROne, LineFactor(mesh.co[v], l0, l1)))
    ELSE ~(LengthSquared(Sub2(l0, mesh.co[v])) > LengthSquared(Sub2(l1, l0)))

\* elems of paint_gradient (lines 64-103): the loops or vertices to paint.
GradientElems(p) ==
    IF corner
    THEN LET faces == IF p.selected_only THEN SelectedOf(SeqOf(Len(mesh.faces)), fsel)
                      ELSE SeqOf(Len(mesh.faces))
         IN  IF p.extend_mode = "BOTH" THEN LoopsOfFaces(faces)
             ELSE FilterLoopsFromFaces(faces, p.boundary_sharp_mode, p.extend_mode,
                                       p.gradient_type, p.l0, p.l1)
    ELSE LET verts == IF p.selected_only THEN SelectedOf(SeqOf(mesh.nv), vsel)
                      ELSE SeqOf(mesh.nv)
         IN  IF EnumTruth(p.extend_mode) THEN verts
             ELSE SelectSeq(verts, LAMBDA v : VertInRange(v, p.gradient_type, p.l0, p.l1))

\* coords[i]: loop.vert.co or vert.co
ElemCo(e) == IF corner THEN mesh.co[LoopVert(mesh, e)] ELSE mesh.co[e]

\* The gradient weight of a position (lines 113-121), clamped to [0, 1].
GradientWeight(p, co) ==
    Clamp01(IF p.gradient_type = "LINEAR" THEN LineFactor(co, p.l0, p.l1)
            ELSE Rat(Length(Sub2(co, p.l0)), Length(Sub2(p.l1, p.l0))))

\* The body of the loop over elems (lines 110-133): the colour written to an
\* element at co that holds old.
PaintedColor(p, co, old) ==
    Only({Only({IF p.clip_colors THEN ClampCol(out) ELSE out :
                  out \in {Blend(p.blend, RAdd(p.factor[1],
                                               RMul(weight, RSub(p.factor[2], p.factor[1]))),
                                 old, Interp(p.interp, weight, p.color[1], p.color[2]))}}) :
            weight \in {GradientWeight(p, co)}})

\* A test for the zero-length line that never fires.
ZeroLengthNever(l0, l1) == FALSE
\* radius == 0 (lines 53-57): the line from l0 to l1 has no length.
ZeroLength(l0, l1) == LengthSquared(Sub2(l1, l0)) = 0

\* How paint_gradient ends: it returns at line 57 for a zero-length line;
\* past that line, line_dir /= radius (line 59) raises on a zero radius.
PaintGradientEnd(p) ==
    IF ZeroLength(p.l0, p.l1) THEN "done"
    ELSE IF LengthSquared(Sub2(p.l1, p.l0)) = 0 THEN "ZeroDivisionError"
    ELSE "done"

\* paint_gradient: the active layer it leaves.  No element is in elems twice
\* and the colour written to one reads no other, so the loop is a map.
PaintGradient(buf, p) ==
    IF ZeroLength(p.l0, p.l1) \/ PaintGradientEnd(p) # "done" THEN buf
    ELSE Only({[e \in DOMAIN buf |->
                  IF InSeq(e, elems) THEN PaintedColor(p, ElemCo(e), buf[e]) ELSE buf[e]] :
                 elems \in {GradientElems(p)}})

\* The lines for which every length paint_gradient takes a root of is rational.
RadialExact(m, l0, l1) ==
    /\ IsSquare(LengthSquared(Sub2(l1, l0)))
    /\ \A v \in Verts(m) : IsSquare(LengthSquared(Sub2(m.co[v], l0)))

(***************************************************************************)
(* Specification SpecGradient: paint_gradient, called once.                *)
(***************************************************************************)
Red == Col(ROne, RZero, RZero, ROne)
FaintBlue == Col(RZero, RZero, ROne, Rat(1, 5))
\* A colour out of [0, 1], as a float attribute can hold.
Glow == Col(RZero, Rat(3, 2), RZero, Rat(3, 2))
\* color_begin, color_end
ColorPairs == {<<Red, FaintBlue>>}
Factors == {<<ROne, ROne>>, <<RZero, ROne>>}

\* Colourings that give neighbouring elements different colours, in and out
\* of [0, 1], with different alphas.
CycleColors == <<Black, Reddish, Faint, Glow>>
CycleColoring(order, colors, r) ==
    [e \in {order[i] : i \in 1..Len(order)} |->
        colors[((IndexOf(e, order) + r) % Len(colors)) + 1]]
CycleColorings(order) == {CycleColoring(order, CycleColors, r) : r \in {0, 1}}
ElemOrder(m, isCorner) == IF isCorner THEN AllLoops(m) ELSE SeqOf(m.nv)

\* The end points of a gradient line: positions of the first vertices.
MaxLineEnds == 3
LinePoints(m) == {m.co[v] : v \in {w \in Verts(m) : w <= MaxLineEnds}}

\* The selections of S a painter is run with: all of S, or every other element.
Alternate(S) == {x \in S : x % 2 = 1}
PaintSelections(S) == {S, Alternate(S)}

GradientMeshes ==
    {StripMesh(n) : n \in 1..MaxQuads} \cup {WireMesh(n) : n \in 1..MaxWire}

InitGradient ==
    /\ mesh \in GradientMeshes
    /\ corner \in (IF mesh.faces = <<>> THEN {FALSE} ELSE BOOLEAN)
    /\ activeAttr = "Col"
    /\ layers \in {[n \in {"Col"} |-> c] : c \in CycleColorings(ElemOrder(mesh, corner))}
    /\ \/ /\ ~corner
          /\ vsel \in PaintSelections(Verts(mesh))
          /\ esel = EdgesWithin(mesh, vsel)
          /\ fsel = FacesWithin(mesh, vsel)
       \/ /\ corner
          /\ fsel \in PaintSelections(Faces(mesh))
          /\ vsel = VertsOfFaces(mesh, fsel)
          /\ esel = EdgesOfFaces(mesh, fsel)
    /\ select_history = NoHistory
    /\ pc = "idle"
    /\ args = NoArgs
    /\ q = <<>>
    /\ saved = NoSaved
    /\ sess = NoSession
    /\ hist = [flood |-> FloodHist0({}),
               pre |-> [layers |-> layers, vsel |-> vsel, esel |-> esel, fsel |-> fsel,
                        walked |-> {}]]

\* paint_gradient(mesh, selected_only, extend_mode, boundary_sharp_mode,
\* gradient_type, interp_func, blend_func, clip_colors, factor, color, line).
PaintGradientCall ==
    /\ pc = "idle"
    /\ \E selected_only \in BOOLEAN, extend_mode \in ExtendModes,
          boundary_sharp_mode \in (IF corner THEN SharpModes ELSE {"OFF"}),
          gradient_type \in GradientTypes, interp \in InterpModes, blend \in BlendModes,
          clip_colors \in BOOLEAN, factor \in Factors, color \in ColorPairs,
          l0 \in LinePoints(mesh), l1 \in LinePoints(mesh) :
         /\ gradient_type = "RADIAL" => RadialExact(mesh, l0, l1)
         /\ \E p \in {[op |-> "paint_gradient",
                       selected_only |-> selected_only,
                       extend_mode |-> extend_mode,
                       boundary_sharp_mode |-> boundary_sharp_mode,
                       gradient_type |-> gradient_type,
                       interp |-> interp, blend |-> blend,
                       clip_colors |-> clip_colors,
                       factor |-> factor, color |-> color,
                       l0 |-> l0, l1 |-> l1]} :
              /\ args' = p
              /\ layers' = WithActive(PaintGradient(ActiveBuf, p))
              /\ pc' = IF PaintGradientEnd(p) = "done" THEN "done" ELSE "error"
    /\ UNCHANGED <<mesh, corner, activeAttr, vsel, esel, fsel, select_history,
                   q, saved, sess, hist>>

NextGradient == PaintGradientCall

SpecGradient == InitGradient /\ [][NextGradient]_vars

(***************************************************************************)
(* Properties of paint_gradient (SpecGradient).                            *)
(***************************************************************************)
PriorBuf == hist.pre.layers[activeAttr]
\* The call C9 is about: point domain, Linear, Mix, factors (1, 1), clip on,
\* over a line of non-zero length.
EndpointCall ==
    /\ pc = "done"
    /\ args.op = "paint_gradient"
    /\ ~corner
    /\ args.gradient_type = "LINEAR"
    /\ args.blend = "MIX"
    /\ args.factor = <<ROne, ROne>>
    /\ args.clip_colors
    /\ args.l0 # args.l1
\* The vertices the call takes: all, or the selected ones when selected_only.
TakenVerts == IF args.selected_only THEN vsel ELSE Verts(mesh)

C10_OutOfRangeKept ==
    (/\ pc = "done"
     /\ args.op = "paint_gradient"
     /\ ~corner
     /\ args.extend_mode = "OFF"
     /\ args.l0 # args.l1)
    => \A v \in Verts(mesh) :
         ~VertInRange(v, args.gradient_type, args.l0, args.l1)
            => ActiveBuf[v] = PriorBuf[v]

\* C11, as claimed: in the corner domain with extend mode OFF, whatever the
\* sharp-edge mode, a corner whose vertex is outside the line's extent
\* (Linear) or farther from the centre than the radius (Radial) keeps its
\* colour.
C11_CornerOutOfRangeKept ==
    (/\ pc = "done"
     /\ args.op = "paint_gradient"
     /\ corner
     /\ args.extend_mode = "OFF"
     /\ args.l0 # args.l1)
    => \A l \in LoopSet(mesh) :
         ~VertInRange(LoopVert(mesh, l), args.gradient_type, args.l0, args.l1)
            => ActiveBuf[l] = PriorBuf[l]

\* C12: paint_gradient over a zero-length line (begin point equal to end
\* point) returns without raising and leaves every element of the attribute
\* as it was, in either domain and for every gradient type, extend mode,
\* sharp-edge mode and blend mode.
C12_ZeroLengthNoOp ==
    (args.op = "paint_gradient" /\ args.l0 = args.l1)
    => (pc = "done" /\ layers = hist.pre.layers)

\* A Radial call over a zero-length line has been made on a mesh with more
\* than one vertex: the weight of every vertex but one would divide by the
\* zero radius.
C12_Witness ==
    /\ pc = "done"
    /\ args.op = "paint_gradient"
    /\ args.l0 = args.l1
    /\ args.gradient_type = "RADIAL"
    /\ args.extend_mode = "BOTH"
    /\ corner
    /\ GradientElems(args) # <<>>

(***************************************************************************)
(* select_similar_color and _get_selection_colors (color_attribute.py).    *)
(***************************************************************************)
\* (color - s_color).length * 0.5, for colours whose distance is rational
HalfDistance(color, s_color) ==
    RMul(RSqrt(LengthSq(VSub(color, s_color))), RHalf)

\* min(distances) and distances.index(min_distance)
MinIndex(distances) ==
    CHOOSE i \in 1..Len(distances) :
        /\ \A j \in 1..Len(distances) : RLe(distances[i], distances[j])
        /\ \A j \in 1..(i - 1) : distances[j] # distances[i]
\* del colors[min_idx]
DelIndex(seq, i) == SubSeq(seq, 1, i - 1) \o SubSeq(seq, i + 1, Len(seq))

\* cumulative_distance of lines 211-217 (and 236-242): each signature colour
\* in turn takes the nearest colour left and removes it.
RECURSIVE CumulativeDistance(_, _)
CumulativeDistance(selection_colors, colors) ==
    IF selection_colors = <<>> THEN RZero
    ELSE LET distances == [i \in 1..Len(colors) |->
                             HalfDistance(colors[i], Head(selection_colors))]
             min_idx == MinIndex(distances)
         IN  RAdd(distances[min_idx],
                  CumulativeDistance(Tail(selection_colors), DelIndex(colors, min_idx)))

\* The test passed whatever the colours, and the test of the source:
\* "average_distance > threshold: continue" is not taken.
SignatureMatchesAny(selection_colors, colors, threshold) == TRUE
SignatureMatches(selection_colors, colors, threshold) ==
    RLe(RDiv(CumulativeDistance(selection_colors, colors), R(Len(selection_colors))),
        threshold)

\* [loop[active_layer] for loop in loops], without alpha when ignore_alpha
LoopColors(loops, ignore_alpha) ==
    [i \in 1..Len(loops) |-> CompareColor(ActiveBuf[loops[i]], ignore_alpha)]
\* edge.link_loops[:] + [loop.link_loop_radial_next for loop in edge.link_loops]
EdgeSignatureLoops(e) ==
    EdgeLoops(mesh, e) \o [i \in 1..Len(EdgeLoops(mesh, e)) |->
                             RadialNext(mesh, EdgeLoops(mesh, e)[i])]

\* Which of its cases _get_selection_colors takes, for the selection vs, es, fs.
SelectionCaseOf(vs, es, fs) ==
    IF corner
    THEN IF Cardinality(vs) = 1 THEN "VERT"
         ELSE IF Cardinality(vs) = 2 /\ Cardinality(es) = 1 THEN "EDGE"
         ELSE IF Cardinality(fs) > 0 THEN "FACES"
         ELSE "VERTS"
    ELSE "POINT"
SelectionCase == SelectionCaseOf(vsel, esel, fsel)

\* The list of colours _get_selection_colors returns for one vertex or edge.
SignatureColors(ignore_alpha) ==
    IF SelectionCase = "VERT"
    THEN LoopColors(LinkLoops(mesh, CHOOSE v \in vsel : TRUE), ignore_alpha)
    ELSE LoopColors(EdgeSignatureLoops(CHOOSE e \in esel : TRUE), ignore_alpha)

\* The single colour _get_selection_colors returns in its other cases.
SelectionAverageOf(vs, es, fs, ignore_alpha) ==
    CompareColor(
        IF SelectionCaseOf(vs, es, fs) = "FACES"
        THEN AverageColor(ActiveBuf, LoopsOfFaces(SelectedOf(SeqOf(Len(mesh.faces)), fs)))
        ELSE IF SelectionCaseOf(vs, es, fs) = "VERTS"
        THEN AverageColor(ActiveBuf,
                 Flatten([i \in 1..Len(SelectedOf(SeqOf(mesh.nv), vs)) |->
                            LinkLoops(mesh, SelectedOf(SeqOf(mesh.nv), vs)[i])]))
        ELSE AverageColor(ActiveBuf, SelectedOf(SeqOf(mesh.nv), vs)),
        ignore_alpha)
SelectionAverage(ignore_alpha) == SelectionAverageOf(vsel, esel, fsel, ignore_alpha)

\* "distance = (color - selection_color).length" compared with the threshold
LengthExceeds(color, selection_color, threshold) ==
    ~WithinThreshold(color, selection_color, threshold)
\* "distance = (color - selection_color).length * 0.5; distance > threshold",
\* decided on the squares
HalfLengthExceeds(color, selection_color, threshold) ==
    Only({RLt(t, RZero) \/ RLt(RMul(t, t), RMul(Rat(1, 4), LengthSq(VSub(color, selection_color)))) :
            t \in {threshold}})

\* The colour of an element in the average case: a face's average corner
\* colour, a vertex's colour.
SimilarElemColor(e, ignore_alpha) ==
    CompareColor(IF corner THEN AverageColor(ActiveBuf, FaceLoops(mesh, e)) ELSE ActiveBuf[e],
                 ignore_alpha)

\* Thresholds between half the distance of two colours and the distance.
SelectThresholds == Thresholds \cup {Rat(3, 10)}
\* The colours of the palette in turn: their distances are rational.
PaletteCycle == <<Black, Reddish, Faint>>

\* select_similar_color(mesh, threshold, ignore_alpha).  In the one-vertex and
\* one-edge cases "cumulative_distance / len(selection_colors)" divides by
\* zero when the signature is empty and an element without loops is met; no
\* flag has been written by then.
SelectSimilarColor ==
    /\ pc = "idle"
    /\ \E threshold \in SelectThresholds, ignore_alpha \in BOOLEAN :
         LET call == [op |-> "select_similar_color", threshold |-> threshold,
                      ignore_alpha |-> ignore_alpha, case |-> SelectionCase]
             sc == SignatureColors(ignore_alpha)
             sa == SelectionAverage(ignore_alpha)
         IN  IF SelectionCase = "VERT"
             THEN IF sc = <<>> /\ \E v \in Verts(mesh) : LinkLoops(mesh, v) = <<>>
                  THEN /\ pc' = "error"
                       /\ args' = [op |-> "select_similar_color", error |-> "ZeroDivisionError"]
                       /\ UNCHANGED <<vsel, esel, fsel>>
                  ELSE /\ pc' = "done"
                       /\ args' = call
                       /\ vsel' = vsel \cup
                            {v \in Verts(mesh) :
                               /\ Len(LinkLoops(mesh, v)) = Len(sc)
                               /\ SignatureMatches(sc,
                                      LoopColors(LinkLoops(mesh, v), ignore_alpha), threshold)}
                       /\ UNCHANGED <<esel, fsel>>
             ELSE IF SelectionCase = "EDGE"
             THEN IF sc = <<>> /\ \E i \in Edges(mesh) : EdgeLoops(mesh, mesh.edges[i]) = <<>>
                  THEN /\ pc' = "error"
                       /\ args' = [op |-> "select_similar_color", error |-> "ZeroDivisionError"]
                       /\ UNCHANGED <<vsel, esel, fsel>>
                  ELSE /\ pc' = "done"
                       /\ args' = call
                       /\ esel' = esel \cup
                            {e \in {mesh.edges[i] : i \in Edges(mesh)} :
                               /\ Len(EdgeLoops(mesh, e)) * 2 = Len(sc)
                               /\ SignatureMatches(sc,
                                      LoopColors(EdgeSignatureLoops(e), ignore_alpha), threshold)}
                       /\ UNCHANGED <<vsel, fsel>>
             ELSE /\ pc' = "done"
                  /\ args' = call
                  /\ IF corner
                     THEN /\ fsel' = fsel \cup
                               {f \in Faces(mesh) :
                                  ~HalfLengthExceeds(SimilarElemColor(f, ignore_alpha), sa, threshold)}
                          /\ UNCHANGED <<vsel, esel>>
                     ELSE /\ vsel' = vsel \cup
                               {v \in Verts(mesh) :
                                  ~HalfLengthExceeds(SimilarElemColor(v, ignore_alpha), sa, threshold)}
                          /\ UNCHANGED <<esel, fsel>>
    /\ UNCHANGED <<mesh, corner, layers, activeAttr, select_history, q, saved, sess, hist>>

(***************************************************************************)
(* Specification SpecSelect: select_similar_color, called once on any      *)
(* selection made in vertex select mode.                                   *)
(***************************************************************************)
SelectMeshes ==
    {StripMesh(n) : n \in 1..MaxQuads} \cup {TriStripMesh(n) : n \in 1..MaxTris}
        \cup {WireMesh(n) : n \in 1..MaxWire}

InitSelect ==
    /\ mesh \in SelectMeshes
    /\ corner \in BOOLEAN
    /\ activeAttr = "Col"
    /\ layers \in {[n \in {"Col"} |-> c] :
                     c \in Colorings(Elems(mesh, corner), Black, Palette \ {Black})
                           \cup {CycleColoring(ElemOrder(mesh, corner), PaletteCycle, 0)}}
    /\ vsel \in SUBSET Verts(mesh)
    /\ esel = EdgesWithin(mesh, vsel)
    /\ fsel = FacesWithin(mesh, vsel)
    /\ select_history = NoHistory
    /\ pc = "idle"
    /\ args = NoArgs
    /\ q = <<>>
    /\ saved = NoSaved
    /\ sess = NoSession
    /\ hist = [flood |-> FloodHist0({}),
               pre |-> [layers |-> layers, vsel |-> vsel, esel |-> esel, fsel |-> fsel,
                        walked |-> {}]]

\* get_selection_color(mesh): how it ends and the colour it returns.  For one
\* vertex or one edge of a corner attribute it averages the listed colours
\* itself, dividing by their number.
RECURSIVE SumList(_)
SumList(colors) ==
    Only({IF s = <<>> THEN ColZero ELSE VAdd(Head(s), SumList(Tail(s))) : s \in {colors}})
GetSelectionColor ==
    IF SelectionCase \in {"VERT", "EDGE"}
    THEN Only({IF sc = <<>> THEN [end |-> "ZeroDivisionError", col |-> ColZero]
               ELSE [end |-> "done", col |-> VScale(SumList(sc), Rat(1, Len(sc)))] :
                 sc \in {SignatureColors(FALSE)}})
    ELSE [end |-> "done", col |-> SelectionAverage(FALSE)]

GetSelectionColorCall ==
    /\ pc = "idle"
    /\ \E r \in {GetSelectionColor} :
         /\ pc' = IF r.end = "done" THEN "done" ELSE "error"
         /\ args' = [op |-> "get_selection_color", out |-> r.col,
                     error |-> IF r.end = "done" THEN "none" ELSE r.end]
    /\ UNCHANGED <<mesh, corner, layers, activeAttr, vsel, esel, fsel, select_history,
                   q, saved, sess, hist>>

NextSelect == SelectSimilarColor \/ GetSelectionColorCall

SpecSelect == InitSelect /\ [][NextSelect]_vars

(***************************************************************************)
(* Properties of select_similar_color (SpecSelect).                        *)
(***************************************************************************)
\* Two colours are the same as the call compares them: in red, green and
\* blue when ignore_alpha, in all four channels otherwise.
SameColor(a, b, ignore_alpha) ==
    /\ a[1] = b[1] /\ a[2] = b[2] /\ a[3] = b[3]
    /\ ignore_alpha \/ a[4] = b[4]
CornerColorsOf(v) == {ActiveBuf[LinkLoops(mesh, v)[i]] : i \in 1..Len(LinkLoops(mesh, v))}
TheSelected == CHOOSE v \in hist.pre.vsel : TRUE

\* The call C7 is about: corner domain, one vertex selected whose corners all
\* have one colour, threshold 0.
OneVertexCall ==
    /\ pc = "done"
    /\ args.op = "select_similar_color"
    /\ args.case = "VERT"
    /\ args.threshold = RZero
    /\ \A c, d \in CornerColorsOf(TheSelected) : SameColor(c, d, args.ignore_alpha)

\* C7: after such a call a vertex is selected if and only if it has as many
\* corners as the selected vertex, all of the colour of the selected vertex's
\* corners (colours compared as the call compares them: without alpha when
\* ignore_alpha).
C7_SameCountSameColor ==
    OneVertexCall =>
        \A v \in Verts(mesh) :
            v \in vsel <=>
                /\ Len(LinkLoops(mesh, v)) = Len(LinkLoops(mesh, TheSelected))
                /\ \A c \in CornerColorsOf(v), d \in CornerColorsOf(TheSelected) :
                     SameColor(c, d, args.ignore_alpha)

\* Such a call has selected a second vertex and has left unselected a vertex
\* with the same number of corners, one of them of another colour.
C7_Witness ==
    /\ OneVertexCall
    /\ \E w \in vsel : w # TheSelected
    /\ \E u \in Verts(mesh) \ vsel :
         Len(LinkLoops(mesh, u)) = Len(LinkLoops(mesh, TheSelected))

\* The call C8 is about, the elements it walks and their flags.
AverageCall ==
    /\ pc = "done"
    /\ args.op = "select_similar_color"
    /\ args.case \in {"FACES", "VERTS", "POINT"}
SimilarElems == IF corner THEN Faces(mesh) ELSE Verts(mesh)
SimilarSel == IF corner THEN fsel ELSE vsel
SimilarPreSel == IF corner THEN hist.pre.fsel ELSE hist.pre.vsel
\* The squared distance between an element's colour and the average colour of
\* the selection the call was made with.
SimilarDistSq(e) ==
    LengthSq(VSub(SimilarElemColor(e, args.ignore_alpha),
                  SelectionAverageOf(hist.pre.vsel, hist.pre.esel, hist.pre.fsel,
                                     args.ignore_alpha)))

\* C8, as claimed: an element is selected by the call exactly when the
\* distance between its colour and the average is at most the threshold; all
\* others keep their flag.
C8_PlainDistance ==
    AverageCall =>
        \A e \in SimilarElems :
            e \in SimilarSel <=>
                (e \in SimilarPreSel
                 \/ RLe(SimilarDistSq(e), RMul(args.threshold, args.threshold)))

\* C8, amended: an element is selected by the call exactly when half the
\* distance between its colour and the average is at most the threshold.
C8_HalfDistance ==
    AverageCall =>
        \A e \in SimilarElems :
            e \in SimilarSel <=>
                (e \in SimilarPreSel
                 \/ RLe(SimilarDistSq(e), RMul(R(4), RMul(args.threshold, args.threshold))))

\* Such a call has selected an element farther from the average than the
\* threshold, and has left another unselected.
C8_Witness ==
    /\ AverageCall
    /\ \E e \in SimilarSel \ SimilarPreSel :
         RLt(RMul(args.threshold, args.threshold), SimilarDistSq(e))
    /\ SimilarSel # SimilarElems

\* The selection the call was made with contributes no colour element: in
\* the corner domain no selected vertex has a corner, in the point domain no
\* vertex is selected.
NoColorSelected ==
    IF corner THEN \A v \in hist.pre.vsel : LinkLoops(mesh, v) = <<>>
    ELSE hist.pre.vsel = {}

\* C17, as claimed: the average of no colours is the zero colour, and
\* get_selection_color and select_similar_color, called with a selection that
\* contributes no colour element, return without raising;
\* get_selection_color then returns the zero colour.
C17_EmptyAverageIsZero ==
    /\ AverageColor(ActiveBuf, <<>>) = ColZero
    /\ (/\ pc \in {"done", "error"}
        /\ args.op \in {"get_selection_color", "select_similar_color"}
        /\ NoColorSelected)
       => /\ pc = "done"
          /\ args.op = "get_selection_color" => args.out = ColZero

(***************************************************************************)
(* _modify_color_attribute, and the painters' sequential writes.  A paint  *)
(* state is a record: buf the layer, log the elements written, in order.   *)
(***************************************************************************)
\* out_col of _modify_color_attribute
ModifiedColor(old, blend, clip_colors, factor, color) ==
    Only({IF clip_colors THEN ClampCol(out) ELSE out :
            out \in {Blend(blend, factor, old, color)}})
\* _modify_color_attribute(elem, color_layer, func, clip_colors, factor, color)
Modify(st, elem, blend, clip_colors, factor, color) ==
    Only({[buf |-> [s.buf EXCEPT ![elem] =
                       ModifiedColor(@, blend, clip_colors, factor, color)],
           log |-> Append(s.log, elem)] : s \in {st}})
\* A run of calls of _modify_color_attribute with the same colour, over elems.
RECURSIVE ModifyEach(_, _, _, _, _, _)
ModifyEach(st, elems, blend, clip_colors, factor, color) ==
    IF elems = <<>> THEN st
    ELSE ModifyEach(Modify(st, Head(elems), blend, clip_colors, factor, color),
                    Tail(elems), blend, clip_colors, factor, color)

(***************************************************************************)
(* paint_topology_gradient (topology_gradient.py).                         *)
(***************************************************************************)
MAX_EDGE_TOPOLOGY_EXTENT == 10000
ExtentClampModes == {"MINIMUM", "MAXIMUM", "INDIVIDUAL"}
\* No loop (None).
NoLoop == <<0, 0>>

\* (b.co - a.co).normalized().dot(direction); normalized() of the zero vector
\* is the zero vector.
NormalizedDot(a, b, direction) ==
    LET d == Sub2(mesh.co[b], mesh.co[a])
    IN  IF LengthSquared(d) = 0 THEN RZero ELSE Rat(Dot2(d, direction), Length(d))

\* loop.link_loop_next.link_loop_next.link_loop_radial_next
StepLoop(l) == RadialNext(mesh, LoopNext(mesh, LoopNext(mesh, l)))

\* The edges whose steps (a1.vert.co - a0.vert.co, line 273) have a length
\* that is a whole number.
StepOf(l) == Sub2(mesh.co[LoopVert(mesh, StepLoop(l))], mesh.co[LoopVert(mesh, l)])
ExactEdges ==
    {e \in {mesh.edges[i] : i \in 1..Len(mesh.edges)} :
        \A i \in 1..Len(EdgeLoops(mesh, e)) :
            IsSquare(LengthSquared(StepOf(EdgeLoops(mesh, e)[i])))}

\* _find_first_loop, for an edge that has a loop: the loop of the face on the
\* side of the direction, None when neither side is ahead of the other.
FindFirstLoop(edge, direction) ==
    LET ll == EdgeLoops(mesh, edge)
        a0 == ll[1]
        a_diff == NormalizedDot(LoopVert(mesh, a0), LoopVert(mesh, StepLoop(a0)), direction)
        b0 == IF Len(ll) = 2 THEN ll[2] ELSE NoLoop
        b_diff == IF Len(ll) = 2
                  THEN NormalizedDot(LoopVert(mesh, b0), LoopVert(mesh, StepLoop(b0)), direction)
                  ELSE RZero
    IN  IF RLt(b_diff, a_diff) THEN a0
        ELSE IF RLt(a_diff, b_diff) THEN b0
        ELSE NoLoop

\* The loop of _find_edge_extent from face_idx on, loop_0 being the one it
\* has stepped to.
RECURSIVE ExtentFrom(_, _, _)
ExtentFrom(face_idx, loop_0, first_face) ==
    IF face_idx >= MAX_EDGE_TOPOLOGY_EXTENT THEN 0
    ELSE LET loop_front_0 == LoopNext(mesh, LoopNext(mesh, loop_0))
             cur_face == LoopFace(loop_0)
             next_face == LoopFace(RadialNext(mesh, loop_front_0))
             num_face_verts == Len(FaceVerts(mesh, cur_face))
         IN  IF next_face = cur_face THEN face_idx
             ELSE IF next_face = first_face THEN face_idx
             ELSE IF num_face_verts = 3 THEN face_idx
             ELSE IF num_face_verts > 4 THEN face_idx - 1
             ELSE ExtentFrom(face_idx + 1, StepLoop(loop_0), first_face)

\* _find_edge_extent
FindEdgeExtent(edge, direction) ==
    LET loop_0 == FindFirstLoop(edge, direction)
    IN  IF loop_0 = NoLoop THEN 0 ELSE ExtentFrom(1, loop_0, LoopFace(loop_0))

\* int(x) and x % 1 == 0 of a rational x >= 0
Floor(x) == x[1] \div x[2]
IsWhole(x) == x[2] = 1
SeqMin(xs) == CHOOSE x \in {xs[i] : i \in 1..Len(xs)} : \A i \in 1..Len(xs) : x <= xs[i]
SeqMax(xs) == CHOOSE x \in {xs[i] : i \in 1..Len(xs)} : \A i \in 1..Len(xs) : x >= xs[i]

\* WalkOf with the denominator bounded below by a half instead of one.
WalkOfHalfDenom(extent) ==
    LET last_face_idx == IF Floor(extent) > 1 THEN Floor(extent) ELSE 1
    IN  [last_face_idx |-> last_face_idx,
         denom |-> RMax(extent, RHalf),
         integer_distance |-> IsWhole(extent),
         is_partial_step |-> RLt(extent, ROne),
         step_count |-> last_face_idx + (IF RLt(extent, ROne) THEN 0 ELSE 1)]

\* The values lines 150-159 derive from an edge's extent.
WalkOf(extent) ==
    LET last_face_idx == IF Floor(extent) > 1 THEN Floor(extent) ELSE 1
    IN  [last_face_idx |-> last_face_idx,
         denom |-> RMax(extent, ROne),
         integer_distance |-> IsWhole(extent),
         is_partial_step |-> RLt(extent, ROne),
         step_count |-> last_face_idx + (IF RLt(extent, ROne) THEN 0 ELSE 1)]

\* The element a loop stands for: the loop, or its vertex in the point domain.
PaintElem(l) == IF corner THEN l ELSE LoopVert(mesh, l)

\* blend_fac and blend_col of a weight (lines 189-191, 209-211)
WeightFactor(p, weight) ==
    RAdd(p.factors[1], RMul(weight, RSub(p.factors[2], p.factors[1])))
WeightColor(p, weight) == Interp(p.interp, weight, p.colors[1], p.colors[2])
\* The writes of one weight; the walk keeps, beside the elements written, the
\* weight of each write.
ModifyAt(st, elems, p, weight) ==
    Only({Only({[buf |-> m.buf, log |-> m.log,
                 weights |-> s.weights \o [k \in 1..Len(elems) |-> weight]] :
                  m \in {ModifyEach([buf |-> s.buf, log |-> s.log], elems, p.blend,
                                    p.clip_colors, WeightFactor(p, weight),
                                    WeightColor(p, weight))}}) :
            s \in {st}})

\* The body of "for face_idx in range(step_count)" from face_idx on, loop_0
\* being the loop of this step (lines 173-255).
RECURSIVE WalkFrom(_, _, _, _, _, _, _)
WalkFrom(st, face_idx, loop_0, first_face, prev_face, w, p) ==
    LET loop_1 == LoopNext(mesh, loop_0)
        loop_back_0 == RadialNext(mesh, loop_0)
        loop_back_1 == LoopNext(mesh, loop_back_0)
        loop_front_0 == LoopNext(mesh, loop_1)
        cur_face == LoopFace(loop_0)
        num_verts == Len(FaceVerts(mesh, cur_face))
        is_ngon == num_verts > 4
        weight == RDiv(R(face_idx), w.denom)
        back == IF face_idx # 0 THEN <<loop_back_0, loop_back_1>> ELSE <<>>
        front == <<loop_0, loop_1>>
        triangle == IF corner THEN back \o front
                    ELSE <<LoopVert(mesh, loop_0), LoopVert(mesh, loop_1)>>
        elems == IF ~corner THEN <<LoopVert(mesh, loop_0), LoopVert(mesh, loop_1)>>
                 ELSE IF w.integer_distance
                      THEN back \o (IF face_idx # w.last_face_idx /\ ~is_ngon
                                    THEN front ELSE <<>>)
                 ELSE IF w.is_partial_step THEN front
                 ELSE back \o front
        after == ModifyAt(st, elems, p, weight)
    IN  IF face_idx # w.last_face_idx /\ num_verts = 3
        THEN ModifyAt(ModifyAt(st, triangle, p, weight),
                      <<PaintElem(loop_front_0)>>, p, RDiv(R(face_idx + 1), w.denom))
        ELSE IF \/ face_idx # 0 /\ cur_face = first_face
                \/ prev_face = cur_face
                \/ face_idx + 1 >= w.step_count
             THEN after
             ELSE WalkFrom(after, face_idx + 1, StepLoop(loop_0), first_face, cur_face, w, p)

\* The extent of an edge capped by the distance, whatever the clamp mode.
ClampedExtentOwn(extend_clamp_mode, distance, edge_extents, i) ==
    RMin(R(edge_extents[i]), distance)
\* extent of lines 141-147
ClampedExtent(extend_clamp_mode, distance, edge_extents, i) ==
    IF extend_clamp_mode = "MAXIMUM" THEN RMin(distance, R(SeqMax(edge_extents)))
    ELSE IF extend_clamp_mode = "MINIMUM" THEN RMin(distance, R(SeqMin(edge_extents)))
    ELSE RMin(R(edge_extents[i]), distance)

\* "for i in range(len(edges))" from i on (lines 139-255); "return 0" for an
\* edge without a first loop leaves the edges after it unpainted.
RECURSIVE PaintEdgesFrom(_, _, _, _, _, _)
PaintEdgesFrom(st, i, edges, edge_extents, direction, p) ==
    IF i > Len(edges) THEN st
    ELSE LET loop_0 == FindFirstLoop(edges[i], direction)
         IN  IF loop_0 = NoLoop THEN st
             ELSE PaintEdgesFrom(
                    WalkFrom(st, 0, loop_0, LoopFace(loop_0), 0,
                             WalkOf(ClampedExtent(p.extent_clamp_mode, RAbs(p.distance),
                                                  edge_extents, i)), p),
                    i + 1, edges, edge_extents, direction, p)

\* _paint_topology_gradient_for_edges
PaintTopologyGradientForEdges(st, edges, direction, p) ==
    PaintEdgesFrom(st, 1, edges,
                   [i \in 1..Len(edges) |-> FindEdgeExtent(edges[i], direction)],
                   direction, p)

\* edges = [edge for edge in bm.edges if edge.select]
SelectedEdges == SelectSeq(mesh.edges, LAMBDA e : e \in esel)
Neg2(a) == <<-a[1], -a[2]>>

\* The test of lines 53-54 alone.
ZeroDirectionOnly(distance, direction) == LengthSquared(direction) = 0
\* The early returns of lines 51-54: distance == 0, direction of no length.
ZeroPass(distance, direction) == distance = RZero \/ LengthSquared(direction) = 0

\* paint_topology_gradient: how it ends ("done", or the exception raised), the
\* layer it leaves and the elements it wrote.  edge.link_loops[0] of an edge
\* without a face raises IndexError, in the first loop over the edges, before
\* any write.
PaintTopologyGradient(buf, p) ==
    LET st0 == [buf |-> buf, log |-> <<>>, weights |-> <<>>]
        direction == IF RLt(p.distance, RZero) THEN Neg2(p.direction) ELSE p.direction
    IN  IF SelectedEdges = <<>> THEN [end |-> "ContextException", st |-> st0]
        ELSE IF ZeroPass(p.distance, p.direction)
             THEN [end |-> "done", st |-> st0]
        ELSE IF \E i \in 1..Len(SelectedEdges) : EdgeLoops(mesh, SelectedEdges[i]) = <<>>
             THEN [end |-> "IndexError", st |-> st0]
        ELSE [end |-> "done",
              st |-> Only({IF p.mirror
                           THEN PaintTopologyGradientForEdges(once, SelectedEdges,
                                                              Neg2(direction), p)
                           ELSE once :
                             once \in {PaintTopologyGradientForEdges(
                                          st0, SelectedEdges, direction, p)}})]

(***************************************************************************)
(* set_selection_color, copy_active_color_to_selected,                     *)
(* merge_color_attribute, save_active_color, load_active_color             *)
(* (color_attribute.py).  An operation's result is a record: end, how it   *)
(* ended ("done" or the exception raised), and what it leaves.             *)
(***************************************************************************)
\* [loop for vert in verts for loop in vert.link_loops]
LoopsOfVerts(verts) == Flatten([i \in 1..Len(verts) |-> LinkLoops(mesh, verts[i])])
SelectedFaces == SelectedOf(SeqOf(Len(mesh.faces)), fsel)
SelectedVerts == SelectedOf(SeqOf(mesh.nv), vsel)

\* SetSelectionElems with the loops of every selected vertex added, those of
\* the vertices of selected faces too.
SetSelectionElemsEveryVert(active_corner_only) ==
    IF corner
    THEN IF active_corner_only
         THEN SelectSeq(LoopsOfFaces(SelectedFaces),
                        LAMBDA l : LoopVert(mesh, l) = ActiveVertex)
         ELSE LoopsOfFaces(SelectedFaces) \o LoopsOfVerts(SelectedVerts)
    ELSE IF active_corner_only THEN <<ActiveVertex>> ELSE SelectedVerts

\* elems of set_selection_color (lines 483-506), for an active vertex or for
\* active_corner_only off.
SetSelectionElems(active_corner_only) ==
    IF corner
    THEN IF active_corner_only
         THEN SelectSeq(LoopsOfFaces(SelectedFaces),
                        LAMBDA l : LoopVert(mesh, l) = ActiveVertex)
         ELSE LoopsOfFaces(SelectedFaces)
              \o LoopsOfVerts(SelectSeq(SelectedVerts,
                     LAMBDA v : v \notin VertsOfFaces(mesh, fsel)))
    ELSE IF active_corner_only THEN <<ActiveVertex>> ELSE SelectedVerts

\* set_selection_color(mesh, active_corner_only, blend_func, factor, color,
\* clip_colors)
SetSelectionColor(buf, p) ==
    IF p.active_corner_only /\ ActiveVertex = 0
    THEN [end |-> "ContextException", st |-> [buf |-> buf, log |-> <<>>]]
    ELSE [end |-> "done",
          st |-> ModifyEach([buf |-> buf, log |-> <<>>],
                            SetSelectionElems(p.active_corner_only),
                            p.blend, p.clip_colors, p.factor, p.color)]

\* "elem[active_layer] = active_color" for each of elems
RECURSIVE AssignEach(_, _, _)
AssignEach(st, elems, color) ==
    IF elems = <<>> THEN st
    ELSE AssignEach(Only({[buf |-> [s.buf EXCEPT ![Head(elems)] = color],
                           log |-> Append(s.log, Head(elems))] : s \in {st}}),
                    Tail(elems), color)

\* What an exception leaves when it is raised after the writes, and when it
\* is raised before them, as the source does.
RaisedAfterWrites(before, after) == after
RaisedBeforeWrites(before, after) == before

\* copy_active_color_to_selected
CopyActiveColorToSelected(buf) ==
    LET selected_elems == IF corner THEN LoopsOfFaces(SelectedFaces) ELSE SelectedVerts
        active_elems == IF corner
                        THEN (IF ActiveFace = 0 THEN <<>> ELSE FaceLoops(mesh, ActiveFace))
                        ELSE (IF ActiveVertex = 0 THEN <<>> ELSE <<ActiveVertex>>)
        before == [buf |-> buf, log |-> <<>>]
        after == AssignEach(before, selected_elems, AverageColor(buf, active_elems))
    IN  IF Len(active_elems) = 0
        THEN [end |-> "ContextException", st |-> RaisedBeforeWrites(before, after)]
        ELSE [end |-> "done", st |-> after]

\* merge_color_attribute(mesh, base_attr_name, other_attr_name, blend_func,
\* factor, clip_colors): every element of other blended with that of base.
\* The attributes of a mesh are taken to be of one domain.
MergeColorAttribute(lays, p) ==
    IF p.base_attr_name \notin DOMAIN lays \/ p.other_attr_name \notin DOMAIN lays
    THEN [end |-> "ContextException", layers |-> lays]
    ELSE [end |-> "done",
          layers |-> [lays EXCEPT ![p.other_attr_name] =
                        [e \in DOMAIN lays[p.other_attr_name] |->
                           ModifiedColor(lays[p.other_attr_name][e], p.blend, p.clip_colors,
                                         p.factor, lays[p.base_attr_name][e])]]]

\* A vector is a record: own tells whether it holds its value (val) itself or
\* wraps the memory of the mesh element elem, as elem[active_layer] does.
ElemVector(e) == [own |-> FALSE, elem |-> e, val |-> ColZero]
ValueOf(buf, vec) == IF vec.own THEN vec.val ELSE buf[vec.elem]
\* elem[active_layer] kept as it is
VectorAsIs(buf, vec) == vec
\* Vector.copy()
VectorCopy(buf, vec) == [own |-> TRUE, elem |-> vec.elem, val |-> ValueOf(buf, vec)]

\* save_active_color: arr = [elem[active_layer].copy() for elem in elems]
SaveActiveColor(buf) ==
    LET elems == ElemOrder(mesh, corner)
    IN  [i \in 1..Len(elems) |-> VectorCopy(buf, ElemVector(elems[i]))]
\* load_active_color: elem[active_layer] = saved[i], in the order of elems
RECURSIVE LoadFrom(_, _, _, _)
LoadFrom(buf, elems, arr, i) ==
    IF i > Len(elems) THEN buf
    ELSE LoadFrom(Only({[b EXCEPT ![elems[i]] = ValueOf(b, arr[i])] : b \in {buf}}),
                  elems, arr, i + 1)
\* The layer left as it is, and the layer loaded.
KeepActiveColor(buf, arr) == buf
LoadActiveColor(buf, arr) == LoadFrom(buf, ElemOrder(mesh, corner), arr, 1)

(***************************************************************************)
(* SpecOps: the operations called one after another on a mesh with two     *)
(* colour attributes, "Col" (active) and "Other".                          *)
(***************************************************************************)
\* At most this many operations are called in a row.
MaxCalls == 3

AttrNames == {"Col", "Other", "Missing"}
OpsMeshes == {StripMesh(n) : n \in 1..MaxQuads} \cup {WireMesh(n) : n \in 1..MaxWire}
TopologyDistances == {RZero, Rat(3, 2)}
\* The active elements tried: none, the first vertex, the first face.
OpsHistories(m) == {h \in Histories(m) : h = NoHistory \/ h[2] = 1}
TopologyDirections == {<<1, 0>>}

InitOps ==
    /\ mesh \in OpsMeshes
    /\ corner \in (IF mesh.faces = <<>> THEN {FALSE} ELSE BOOLEAN)
    /\ activeAttr = "Col"
    /\ layers = [n \in {"Col", "Other"} |->
                   CycleColoring(ElemOrder(mesh, corner), CycleColors,
                                 IF n = "Col" THEN 0 ELSE 1)]
    /\ \/ /\ vsel \in PaintSelections(Verts(mesh)) \cup {{}}
          /\ esel = EdgesWithin(mesh, vsel)
          /\ fsel = FacesWithin(mesh, vsel)
       \/ /\ fsel \in PaintSelections(Faces(mesh)) \cup {{}}
          /\ vsel = VertsOfFaces(mesh, fsel)
          /\ esel = EdgesOfFaces(mesh, fsel)
    /\ select_history \in OpsHistories(mesh)
    /\ pc = "idle"
    /\ args = NoArgs
    /\ q = <<>>
    /\ saved = NoSaved
    /\ sess = NoSession
    /\ hist = [flood |-> FloodHist0({}),
               pre |-> [layers |-> layers, vsel |-> vsel, esel |-> esel, fsel |-> fsel,
                        walked |-> {}],
               calls |-> 0, atSave |-> <<>>, restored |-> FALSE]

\* An operation is called when none is running.
Ready == pc \in {"idle", "done", "error"} /\ hist.calls < MaxCalls
\* How a call that ended with end is recorded.
Ended(op, end) ==
    /\ pc' = IF end = "done" THEN "done" ELSE "error"
    /\ args' = [op |-> op, error |-> IF end = "done" THEN "none" ELSE end]
\* The history at a call: one call more, that of the call before dropped.
CallHist ==
    [hist EXCEPT !.flood = FloodHist0({}), !.calls = @ + 1, !.restored = FALSE]

SetSelectionColorCall ==
    /\ Ready
    /\ \E active_corner_only \in BOOLEAN, blend \in {"MIX"} :
         \E r \in {SetSelectionColor(ActiveBuf,
                      [active_corner_only |-> active_corner_only, blend |-> blend,
                       factor |-> ROne, color |-> Red, clip_colors |-> TRUE])} :
            /\ layers' = WithActive(r.st.buf)
            /\ Ended("set_selection_color", r.end)
    /\ hist' = CallHist
    /\ UNCHANGED <<mesh, corner, activeAttr, vsel, esel, fsel, select_history, q, saved, sess>>

CopyActiveColorToSelectedCall ==
    /\ Ready
    /\ \E r \in {CopyActiveColorToSelected(ActiveBuf)} :
            /\ layers' = WithActive(r.st.buf)
            /\ Ended("copy_active_color_to_selected", r.end)
    /\ hist' = CallHist
    /\ UNCHANGED <<mesh, corner, activeAttr, vsel, esel, fsel, select_history, q, saved, sess>>

MergeColorAttributeCall ==
    /\ Ready
    /\ \E base_attr_name \in AttrNames \ {"Col"}, other_attr_name \in AttrNames \ {"Other"},
          blend \in {"ADD"} :
         \E r \in {MergeColorAttribute(layers,
                      [base_attr_name |-> base_attr_name,
                       other_attr_name |-> other_attr_name, blend |-> blend,
                       factor |-> ROne, clip_colors |-> TRUE])} :
            /\ layers' = r.layers
            /\ Ended("merge_color_attribute", r.end)
    /\ hist' = CallHist
    /\ UNCHANGED <<mesh, corner, activeAttr, vsel, esel, fsel, select_history, q, saved, sess>>

PaintTopologyGradientCall ==
    /\ Ready
    /\ \E mirror \in BOOLEAN, distance \in TopologyDistances,
          extent_clamp_mode \in {"INDIVIDUAL"}, direction \in TopologyDirections :
         \E r \in {PaintTopologyGradient(ActiveBuf,
                      [mirror |-> mirror, interp |-> "LINEAR", blend |-> "MIX",
                       clip_colors |-> TRUE, factors |-> <<ROne, ROne>>,
                       colors |-> <<Red, FaintBlue>>, distance |-> distance,
                       extent_clamp_mode |-> extent_clamp_mode,
                       direction |-> direction])} :
            /\ layers' = WithActive(r.st.buf)
            /\ Ended("paint_topology_gradient", r.end)
    /\ hist' = CallHist
    /\ UNCHANGED <<mesh, corner, activeAttr, vsel, esel, fsel, select_history, q, saved, sess>>

SaveActiveColorCall ==
    /\ Ready
    /\ saved' = SaveActiveColor(ActiveBuf)
    /\ Ended("save_active_color", "done")
    /\ hist' = [CallHist EXCEPT !.atSave = ActiveBuf]
    /\ UNCHANGED <<mesh, corner, layers, activeAttr, vsel, esel, fsel, select_history, q, sess>>

\* load_active_color is given a list that save_active_color returned.
LoadActiveColorCall ==
    /\ Ready
    /\ saved # NoSaved
    /\ layers' = WithActive(LoadActiveColor(ActiveBuf, saved))
    /\ Ended("load_active_color", "done")
    /\ hist' = [CallHist EXCEPT !.restored = (ActiveBuf # hist.atSave)]
    /\ UNCHANGED <<mesh, corner, activeAttr, vsel, esel, fsel, select_history, q, saved, sess>>

NextOps ==
    \/ SelectLinkedBegin
    \/ FloodStepVertex
    \/ FloodStepFace
    \/ SelectLinkedEnd
    \/ SetSelectionColorCall
    \/ CopyActiveColorToSelectedCall
    \/ MergeColorAttributeCall
    \/ PaintTopologyGradientCall
    \/ SaveActiveColorCall
    \/ LoadActiveColorCall

SpecOps == InitOps /\ [][NextOps]_vars

(***************************************************************************)
(* Properties of the operations called in a row.                           *)
(***************************************************************************)
\* C2: the list save_active_color returned holds, whatever was painted since,
\* the colours the active layer had at the save (its entries are copies, not
\* views of the mesh), and after load_active_color every element of the
\* active layer has the colour it had at the save.
C2_SaveLoadRoundTrip ==
    /\ saved # NoSaved =>
         \A i \in 1..Len(saved) :
            ValueOf(ActiveBuf, saved[i]) = hist.atSave[ElemOrder(mesh, corner)[i]]
    /\ (pc = "done" /\ args.op = "load_active_color") => ActiveBuf = hist.atSave

\* A load that found the active layer different from what was saved.
C2_Witness ==
    /\ pc = "done"
    /\ args.op = "load_active_color"
    /\ hist.restored

\* C3: a call of select_linked, set_selection_color,
\* copy_active_color_to_selected, merge_color_attribute or
\* paint_topology_gradient that raises ContextException leaves every colour
\* of every attribute and every selection flag as it was before the call.
C3_RaiseLeavesAll ==
    [][(pc' = "error" /\ args'.error = "ContextException")
         => /\ layers' = layers
            /\ vsel' = vsel /\ esel' = esel /\ fsel' = fsel
            /\ select_history' = select_history]_vars

\* copy_active_color_to_selected has raised with elements selected to write to.
C3_Witness ==
    /\ pc = "error"
    /\ args.op = "copy_active_color_to_selected"
    /\ args.error = "ContextException"
    /\ IF corner THEN fsel # {} ELSE vsel # {}

(***************************************************************************)
(* The interactive session of EDITVERTCOL_OT_PaintGradient                 *)
(* (operators/paint_gradient.py): invoke, then modal once per event.       *)
(***************************************************************************)
\* At most this many toggle keys are pressed in a session.
MaxToggles == 1

\* get_mouse_3d_pos depends on the view, the pointer, the snap and axis
\* settings; here it is the position of either of the first two vertices.
MousePoints(m) == {m.co[1], m.co[2]}
ToggleKeys == {"TAB", "E", "H", "F", "S", "X", "Y", "Z"}
GradientEvents(m) ==
    {[type |-> t, value |-> v, shift |-> FALSE, mouse |-> m.co[1]] :
        t \in {"E", "H", "F", "S", "X", "Y", "Z", "RET", "ESC", "MIDDLEMOUSE"},
        v \in {"PRESS", "RELEASE"}}
    \cup {[type |-> "TAB", value |-> "PRESS", shift |-> sh, mouse |-> pt] :
            sh \in BOOLEAN, pt \in MousePoints(m)}
    \cup {[type |-> t, value |-> "PRESS", shift |-> FALSE, mouse |-> pt] :
            t \in {"LEFTMOUSE", "RIGHTMOUSE"}, pt \in MousePoints(m)}
    \cup {[type |-> "MOUSEMOVE", value |-> "NOTHING", shift |-> FALSE, mouse |-> pt] :
            pt \in MousePoints(m)}

\* cycle_extend_mode, cycle_sharp_mode, and the X / Y / Z key on the axis
CycleExtendMode(mode) ==
    CASE mode = "OFF" -> "FORWARD"
      [] mode = "FORWARD" -> "BACKWARD"
      [] mode = "BACKWARD" -> "BOTH"
      [] mode = "BOTH" -> "OFF"
CycleSharpMode(mode) ==
    CASE mode = "OFF" -> "FACE"
      [] mode = "FACE" -> "VERTEX"
      [] mode = "VERTEX" -> "OFF"
CycleAxis(axis, key) ==
    IF axis = key THEN "L" \o key ELSE IF axis = "L" \o key THEN "NONE" ELSE key

\* execute: paint_gradient with the operator's properties.  The object is at
\* the origin of the world, so positions are the same in both spaces.
GradientExecute(s, buf) ==
    PaintGradient(buf, [selected_only |-> s.selected_only,
                        extend_mode |-> s.extend_mode,
                        boundary_sharp_mode |-> s.sharp_edge_mode,
                        gradient_type |-> s.gradient_type,
                        interp |-> "LINEAR", blend |-> "MIX",
                        clip_colors |-> s.clip_colors,
                        factor |-> <<ROne, ROne>>, color |-> <<Red, FaintBlue>>,
                        l0 |-> s.position_begin, l1 |-> s.position_end])

\* The guard of "case 'RET' if self._state == self.PaintState.BOTH"
RetConfirmsAlways(state) == TRUE
RetConfirms(state) == state = "BOTH"

\* The "match event.type" of modal on a press (lines 471-558): the operator,
\* the layer, do_refresh, do_cursor_refresh and the value returned there, if
\* any.
GradientOnPress(s, buf, ev) ==
    LET go(s1, b1, refresh, cursor, ret) ==
            [s |-> s1, buf |-> b1, do_refresh |-> refresh,
             do_cursor_refresh |-> cursor, ret |-> ret]
        t == ev.type
    IN  CASE t = "TAB" ->
               IF ev.shift THEN go([s EXCEPT !.snap = ~@], buf, TRUE, TRUE, "none")
               ELSE go(s, buf, FALSE, FALSE, "none")
          [] t = "E" -> go([s EXCEPT !.extend_mode = CycleExtendMode(@)], buf, TRUE, FALSE, "none")
          [] t = "H" -> go([s EXCEPT !.clip_colors = ~@], buf, TRUE, FALSE, "none")
          [] t = "F" -> go([s EXCEPT !.sharp_edge_mode = CycleSharpMode(@)], buf, TRUE, FALSE, "none")
          [] t = "S" -> go([s EXCEPT !.selected_only = ~@], buf, TRUE, FALSE, "none")
          [] t \in {"X", "Y", "Z"} ->
               go([s EXCEPT !.axis = CycleAxis(@, t)], buf, TRUE, FALSE, "none")
          [] t = "LEFTMOUSE" ->
               (CASE s.state = "NONE" ->
                       go([s EXCEPT !.position_begin = ev.mouse, !.position_end = ev.mouse,
                                    !.state = "FIRST"], buf, FALSE, FALSE, "none")
                  [] s.state = "FIRST" ->
                       go([s EXCEPT !.position_end = ev.mouse, !.state = "BOTH"],
                          buf, FALSE, FALSE, "none")
                  [] s.state = "BOTH" -> go(s, buf, FALSE, FALSE, "FINISHED"))
          [] t = "RET" ->
               IF RetConfirms(s.state) THEN go(s, buf, FALSE, FALSE, "FINISHED")
               ELSE go(s, buf, FALSE, FALSE, "none")
          [] t = "RIGHTMOUSE" ->
               (CASE s.state = "NONE" ->
                       go(s, LoadActiveColor(buf, saved), FALSE, FALSE, "CANCELLED")
                  [] s.state = "FIRST" ->
                       go([s EXCEPT !.axis = "NONE", !.state = "NONE"],
                          LoadActiveColor(buf, saved), TRUE, FALSE, "none")
                  [] s.state = "BOTH" ->
                       go([s EXCEPT !.axis = "NONE", !.state = "FIRST",
                                    !.position_end = ev.mouse], buf, TRUE, FALSE, "none"))
          [] t = "ESC" -> go(s, LoadActiveColor(buf, saved), FALSE, FALSE, "CANCELLED")
          [] OTHER -> go(s, buf, FALSE, FALSE, "none")

\* modal(context, event): the operator and the layer it leaves, and the value
\* it returns.
GradientModal(s, buf, ev) ==
    IF ev.type \in {"MIDDLEMOUSE", "WHEELUPMOUSE", "WHEELDOWNMOUSE"}
    THEN [s |-> s, buf |-> buf, ret |-> "PASS_THROUGH", ran |-> <<>>]
    ELSE LET a == IF ev.value = "PRESS" THEN GradientOnPress(s, buf, ev)
                  ELSE [s |-> s, buf |-> buf, do_refresh |-> FALSE,
                        do_cursor_refresh |-> FALSE, ret |-> "none"]
             cursor == a.do_cursor_refresh \/ ev.type = "MOUSEMOVE"
             b == IF cursor /\ a.s.state = "FIRST"
                  THEN [s |-> [a.s EXCEPT !.position_end = ev.mouse],
                        buf |-> LoadActiveColor(a.buf, saved), do_refresh |-> TRUE]
                  ELSE [s |-> a.s, buf |-> a.buf, do_refresh |-> a.do_refresh]
         IN  IF a.ret # "none" THEN [s |-> a.s, buf |-> a.buf, ret |-> a.ret, ran |-> <<>>]
             ELSE IF b.do_refresh /\ b.s.state # "NONE"
                  THEN Only({[s |-> b.s, buf |-> GradientExecute(b.s, on),
                              ret |-> "RUNNING_MODAL", ran |-> <<on>>] :
                               on \in {LoadActiveColor(b.buf, saved)}})
                  ELSE [s |-> b.s, buf |-> b.buf, ret |-> "RUNNING_MODAL", ran |-> <<>>]

(***************************************************************************)
(* The interactive session of EDITVERTCOL_OT_PaintGradientTopology         *)
(* (operators/paint_topology_gradient.py).                                 *)
(***************************************************************************)
\* What a mouse move sets: _distance and direction, both zero when the
\* pointer is where it was at invoke.
TopologyMoves ==
    {[distance |-> RZero, direction |-> <<0, 0>>]}
    \cup {[distance |-> d, direction |-> dir] :
            d \in {RHalf, Rat(3, 2)}, dir \in {<<1, 0>>, <<0, 1>>}}
TopologyEvents ==
    {[type |-> t, value |-> v, ctrl |-> c, move |-> [distance |-> RZero, direction |-> <<0, 0>>]] :
        t \in {"H", "M", "LEFTMOUSE", "RET", "ESC", "RIGHTMOUSE"},
        v \in {"PRESS", "RELEASE"}, c \in BOOLEAN}
    \cup {[type |-> "MOUSEMOVE", value |-> "NOTHING", ctrl |-> c, move |-> mv] :
            c \in BOOLEAN, mv \in TopologyMoves}

\* ceil of a rational
Ceil(x) == IF IsWhole(x) THEN x[1] ELSE Floor(x) + 1

\* execute: paint_topology_gradient with the operator's properties;
\* ContextException is caught and CANCELLED returned, any other exception
\* leaves execute.
TopologyExecute(s, buf) ==
    Only({[buf |-> r.st.buf,
           ret |-> CASE r.end = "done" -> "FINISHED"
                     [] r.end = "ContextException" -> "CANCELLED"
                     [] OTHER -> r.end] :
            r \in {PaintTopologyGradient(buf,
                      [mirror |-> s.mirror, interp |-> "LINEAR", blend |-> "MIX",
                       clip_colors |-> s.clip_colors, factors |-> <<ROne, ROne>>,
                       colors |-> <<Red, FaintBlue>>, distance |-> s.distance,
                       extent_clamp_mode |-> s.extent_clamp_mode,
                       direction |-> s.direction])}})

\* modal(context, event)
TopologyModal(s, buf, ev) ==
    LET s1 == IF s.snap = ev.ctrl THEN [s EXCEPT !.snap = ~ev.ctrl] ELSE s
        moved == ev.type = "MOUSEMOVE"
        s2 == IF moved
              THEN [s1 EXCEPT !.raw_distance = ev.move.distance,
                              !.direction = ev.move.direction]
              ELSE s1
        b2 == IF moved THEN LoadActiveColor(buf, saved) ELSE buf
        press == ev.value = "PRESS"
        s3 == IF press /\ ev.type = "H" THEN [s2 EXCEPT !.clip_colors = ~@]
              ELSE IF press /\ ev.type = "M" THEN [s2 EXCEPT !.mirror = ~@]
              ELSE s2
        do_refresh == s.snap = ev.ctrl \/ moved \/ (press /\ ev.type \in {"H", "M"})
        s4 == [s3 EXCEPT !.distance = IF s3.snap THEN R(Ceil(s3.raw_distance))
                                      ELSE s3.raw_distance]
    IN  IF press /\ ev.type \in {"LEFTMOUSE", "RET"}
        THEN [s |-> s3, buf |-> b2, ret |-> "FINISHED", ran |-> <<>>]
        ELSE IF press /\ ev.type \in {"ESC", "RIGHTMOUSE"}
        THEN [s |-> s3, buf |-> LoadActiveColor(b2, saved), ret |-> "CANCELLED", ran |-> <<>>]
        ELSE IF do_refresh
        THEN Only({Only({[s |-> s4, buf |-> x.buf,
                          ret |-> IF x.ret = "FINISHED" THEN "RUNNING_MODAL" ELSE x.ret,
                          ran |-> <<on>>] :
                           x \in {TopologyExecute(s4, on)}}) :
                     on \in {LoadActiveColor(b2, saved)}})
        ELSE [s |-> s3, buf |-> b2, ret |-> "RUNNING_MODAL", ran |-> <<>>]

(***************************************************************************)
(* SpecModal: either session, invoked on a mesh and run event by event     *)
(* until modal returns something else than RUNNING_MODAL or PASS_THROUGH.  *)
(***************************************************************************)
ModalMeshes == {StripMesh(MaxQuads), WireMesh(MaxWire)}

\* hist.last is the event modal handled last and the state it found the
\* gradient session in; NoEvent before the first event of a session.  The
\* key of a release is not recorded.
NoEvent == [type |-> "none", value |-> "NOTHING", shift |-> FALSE, state |-> "NONE"]

\* hist.exec is about the calls of execute that modal has made in the
\* session: whether there was one, whether one was made with the layer
\* painted before the event, whether one of them found the layer different
\* from the layer saved at invoke, and the layer the last of them left.
NoExecute == [ran |-> FALSE, over |-> FALSE, stacked |-> FALSE, out |-> <<>>]
Executed(r) ==
    IF r.ran = <<>> THEN hist.exec
    ELSE [ran |-> TRUE,
          over |-> hist.exec.over \/ ActiveBuf # hist.atInvoke,
          stacked |-> hist.exec.stacked \/ r.ran[1] # hist.atInvoke,
          out |-> r.buf]
Handled(ev, state) ==
    [type |-> IF ev.value = "RELEASE" THEN "ANY" ELSE ev.type,
     value |-> ev.value, shift |-> ev.shift, state |-> state]

InitModal ==
    /\ mesh \in ModalMeshes
    /\ corner \in (IF mesh.faces = <<>> THEN {FALSE} ELSE BOOLEAN)
    /\ activeAttr = "Col"
    /\ layers = [n \in {"Col"} |-> CycleColoring(ElemOrder(mesh, corner), CycleColors, 0)]
    /\ vsel \in PaintSelections(Verts(mesh)) \cup {{}}
    /\ esel = EdgesWithin(mesh, vsel)
    /\ fsel = FacesWithin(mesh, vsel)
    /\ select_history = NoHistory
    /\ pc = "idle"
    /\ args = NoArgs
    /\ q = <<>>
    /\ saved = NoSaved
    /\ sess = NoSession
    /\ hist = [flood |-> FloodHist0({}),
               pre |-> [layers |-> layers, vsel |-> vsel, esel |-> esel, fsel |-> fsel,
                        walked |-> {}],
               atInvoke |-> ActiveBuf, painted |-> FALSE, last |-> NoEvent,
               exec |-> NoExecute]

\* invoke of the gradient operator: the state is NONE, the active layer is
\* saved.  The properties are those of the operator's last use.
GradientInvoke ==
    /\ pc = "idle"
    /\ \E extend_mode \in {"OFF"},
          gradient_type \in {t \in GradientTypes :
                               t = "RADIAL" => \A l0 \in MousePoints(mesh),
                                                  l1 \in MousePoints(mesh) :
                                                  RadialExact(mesh, l0, l1)} :
         sess' = [kind |-> "gradient", result |-> "RUNNING_MODAL", toggles |-> 0,
                  state |-> "NONE", snap |-> FALSE, axis |-> "NONE",
                  selected_only |-> FALSE, extend_mode |-> extend_mode,
                  sharp_edge_mode |-> "FACE", clip_colors |-> TRUE,
                  gradient_type |-> gradient_type,
                  position_begin |-> <<0, 0>>, position_end |-> <<0, 0>>]
    /\ saved' = SaveActiveColor(ActiveBuf)
    /\ pc' = "modal"
    /\ hist' = [hist EXCEPT !.atInvoke = ActiveBuf, !.painted = FALSE, !.last = NoEvent,
                             !.exec = NoExecute]
    /\ UNCHANGED <<mesh, corner, layers, activeAttr, vsel, esel, fsel, select_history, args, q>>

\* invoke of the topology operator
TopologyInvoke ==
    /\ pc = "idle"
    /\ sess' = [kind |-> "topology", result |-> "RUNNING_MODAL", toggles |-> 0,
                snap |-> FALSE, raw_distance |-> RZero, distance |-> ROne,
                direction |-> <<1, 0>>, mirror |-> FALSE, clip_colors |-> TRUE,
                extent_clamp_mode |-> "MINIMUM"]
    /\ saved' = SaveActiveColor(ActiveBuf)
    /\ pc' = "modal"
    /\ hist' = [hist EXCEPT !.atInvoke = ActiveBuf, !.painted = FALSE, !.last = NoEvent,
                             !.exec = NoExecute]
    /\ UNCHANGED <<mesh, corner, layers, activeAttr, vsel, esel, fsel, select_history, args, q>>

\* The session after modal returned ret.
AfterModal(r, last) ==
    /\ layers' = WithActive(r.buf)
    /\ sess' = [r.s EXCEPT !.result = IF r.ret = "PASS_THROUGH" THEN "RUNNING_MODAL"
                                      ELSE r.ret]
    /\ pc' = IF r.ret \in {"RUNNING_MODAL", "PASS_THROUGH"} THEN "modal" ELSE "done"
    /\ hist' = [hist EXCEPT !.painted = (ActiveBuf # hist.atInvoke), !.last = last,
                             !.exec = Executed(r)]

GradientModalEvent ==
    /\ pc = "modal"
    /\ sess.kind = "gradient"
    /\ \E ev \in GradientEvents(mesh) :
         /\ (ev.value = "PRESS" /\ ev.type \in ToggleKeys) => sess.toggles < MaxToggles
         /\ \E r \in {GradientModal(
                        IF ev.value = "PRESS" /\ ev.type \in ToggleKeys
                        THEN [sess EXCEPT !.toggles = @ + 1] ELSE sess,
                        ActiveBuf, ev)} :
              AfterModal(r, Handled(ev, sess.state))
    /\ UNCHANGED <<mesh, corner, activeAttr, vsel, esel, fsel, select_history, args, q, saved>>

TopologyModalEvent ==
    /\ pc = "modal"
    /\ sess.kind = "topology"
    /\ \E ev \in TopologyEvents :
         /\ (ev.value = "PRESS" /\ ev.type \in {"H", "M"}) => sess.toggles < MaxToggles
         /\ \E r \in {TopologyModal(
                        IF ev.value = "PRESS" /\ ev.type \in {"H", "M"}
                        THEN [sess EXCEPT !.toggles = @ + 1] ELSE sess,
                        ActiveBuf, ev)} :
              AfterModal(r, NoEvent)
    /\ UNCHANGED <<mesh, corner, activeAttr, vsel, esel, fsel, select_history, args, q, saved>>

NextModal ==
    \/ GradientInvoke
    \/ GradientModalEvent
    \/ TopologyInvoke
    \/ TopologyModalEvent

SpecModal == InitModal /\ [][NextModal]_vars

\* C1: when either session has ended with CANCELLED, every element of the
\* active colour attribute has the colour it had when the session was invoked.
C1_CancelRestores ==
    (sess.kind # "none" /\ sess.result = "CANCELLED") => ActiveBuf = hist.atInvoke

\* A session cancelled by an event that found the layer painted.
C1_Witness ==
    /\ sess.kind # "none"
    /\ sess.result = "CANCELLED"
    /\ hist.painted

\* The layer the gradient session shows when every change of its state or of
\* its properties has repainted the restored layer: the layer saved at invoke
\* with no point placed, else paint_gradient of that layer with the
\* operator's properties as they are now.
Repainted ==
    IF sess.state = "NONE" THEN hist.atInvoke
    ELSE GradientExecute(sess, hist.atInvoke)

\* C19: while the gradient session is running, after every event the active
\* layer is the layer saved at invoke when no point is placed, and otherwise
\* paint_gradient of the layer saved at invoke with the operator's current
\* positions and flags.
C19_BufferFollowsParameters ==
    (sess.kind = "gradient" /\ sess.result = "RUNNING_MODAL")
        => ActiveBuf = Repainted

\* The gradient session has handled an event: it was of this kind, and
\* took the session from one state to another.
Pressed(types) == hist.last.value = "PRESS" /\ hist.last.type \in types
Stepped(from, to) == hist.last.state = from /\ sess.state = to

C21_PaintsNeverStack ==
    sess.kind # "none" =>
        /\ ~hist.exec.stacked
        /\ \/ ActiveBuf = hist.atInvoke
           \/ hist.exec.ran /\ ActiveBuf = hist.exec.out
        /\ (sess.kind = "gradient" /\ sess.state = "NONE") => ActiveBuf = hist.atInvoke

\* A session in which execute was called by an event that found the layer
\* painted, and the layer is painted.
C21_Witness ==
    /\ sess.kind # "none"
    /\ hist.exec.over
    /\ hist.painted
    /\ ActiveBuf # hist.atInvoke


(***************************************************************************)
(* SpecTopology: paint_topology_gradient, called once on a mesh with some  *)
(* seed edges selected.                                                    *)
(***************************************************************************)
\* At most this many edges are selected.
MaxSeeds == 2

\* Strips of quads and of triangles, wire, the smallest closed ring of quads
\* and a quad closed by a triangle.
TopologyMeshes ==
    {StripMesh(n) : n \in 1..MaxQuads} \cup {TriStripMesh(n) : n \in 1..MaxTris}
    \cup {WireMesh(n) : n \in 1..MaxWire} \cup {RingMesh(3), CappedStripMesh(1)}
\* distance: zero, below one step, whole, fractional above one step, once
\* around the ring, negative.
PaintDistances == {RZero, RHalf, ROne, Rat(3, 2), R(2), R(3), R(-1)}
\* direction: along the strip, across it, and the zero vector.
PaintDirections == {<<1, 0>>, <<0, 1>>, <<0, 0>>}
SeedSets(m) ==
    {T \in SUBSET {m.edges[i] : i \in 1..Len(m.edges)} : Cardinality(T) <= MaxSeeds}

\* edge_extents and the extent of each edge (lines 131-147) of a pass over
\* edges in a direction.
EdgeExtents(edges, direction) ==
    [i \in 1..Len(edges) |-> FindEdgeExtent(edges[i], direction)]
UsedExtents(p, edges, direction) ==
    Only({[i \in 1..Len(edges) |->
             ClampedExtent(p.extent_clamp_mode, RAbs(p.distance), edge_extents, i)] :
            edge_extents \in {EdgeExtents(edges, direction)}})

InitTopology ==
    /\ mesh \in TopologyMeshes
    /\ corner \in (IF mesh.faces = <<>> THEN {FALSE} ELSE BOOLEAN)
    /\ activeAttr = "Col"
    /\ layers = [n \in {"Col"} |-> CycleColoring(ElemOrder(mesh, corner), CycleColors, 0)]
    /\ esel \in {T \in SeedSets(mesh) : T \subseteq ExactEdges}
    /\ vsel = UNION esel
    /\ fsel = {f \in Faces(mesh) :
                 \A k \in 1..Len(mesh.faces[f]) : FaceEdges(mesh.faces[f])[k] \in esel}
    /\ select_history = NoHistory
    /\ pc = "idle"
    /\ args = NoArgs
    /\ q = <<>>
    /\ saved = NoSaved
    /\ sess = NoSession
    /\ hist = [pre |-> layers, log |-> <<>>, weights |-> <<>>, edge_extents |-> <<>>,
               extents |-> <<>>]

\* paint_topology_gradient(mesh, mirror, interp_func, blend_func, clip_colors,
\* factors, colors, distance, extent_clamp_mode, direction).  The history
\* keeps the elements written, in order, and the extents of the first pass.
PaintTopologyCall ==
    /\ pc = "idle"
    /\ \E mirror \in BOOLEAN, distance \in PaintDistances,
          extent_clamp_mode \in ExtentClampModes, direction \in PaintDirections :
         \E p \in {[op |-> "paint_topology_gradient", error |-> "none",
                    mirror |-> mirror, interp |-> "LINEAR", blend |-> "ADD",
                    clip_colors |-> FALSE, factors |-> <<ROne, ROne>>,
                    colors |-> <<Red, FaintBlue>>, distance |-> distance,
                    extent_clamp_mode |-> extent_clamp_mode,
                    direction |-> direction]} :
           \E r \in {PaintTopologyGradient(ActiveBuf, p)} :
              /\ layers' = WithActive(r.st.buf)
              /\ pc' = IF r.end = "done" THEN "done" ELSE "error"
              /\ args' = [p EXCEPT !.error = IF r.end = "done" THEN "none" ELSE r.end]
              /\ \E passed \in {/\ r.end = "done"
                                /\ distance # RZero
                                /\ LengthSquared(direction) # 0},
                    d \in {IF RLt(distance, RZero) THEN Neg2(direction) ELSE direction} :
                   hist' = [hist EXCEPT
                              !.log = r.st.log,
                              !.weights = r.st.weights,
                              !.edge_extents =
                                  IF passed THEN EdgeExtents(SelectedEdges, d) ELSE <<>>,
                              !.extents =
                                  IF passed THEN UsedExtents(p, SelectedEdges, d) ELSE <<>>]
    /\ UNCHANGED <<mesh, corner, activeAttr, vsel, esel, fsel, select_history,
                   q, saved, sess>>

NextTopology == PaintTopologyCall

SpecTopology == InitTopology /\ [][NextTopology]_vars

(***************************************************************************)
(* Properties of paint_topology_gradient (SpecTopology).                   *)
(***************************************************************************)
\* A call with distance 0 or with a direction of no length has been made.
ZeroCall ==
    /\ args.op = "paint_topology_gradient"
    /\ (args.distance = RZero \/ LengthSquared(args.direction) = 0)

\* C13, as claimed: such a call raises nothing and leaves the attribute as it
\* was, on every mesh and for every selection.
C13_ZeroIsNoOp == ZeroCall => (pc = "done" /\ layers = hist.pre)

\* C13, amended: with at least one edge selected such a call raises nothing
\* and leaves the attribute as it was; with no edge selected it raises
\* ContextException, and leaves the attribute as it was too.
C13_ZeroIsNoOpWithEdges ==
    ZeroCall =>
        /\ layers = hist.pre
        /\ esel # {} => pc = "done"
        /\ esel = {} => (pc = "error" /\ args.error = "ContextException")

\* Calls with distance 0 and with a zero direction have been made with edges
\* selected that a pass with the same arguments otherwise would paint from,
\* and with edges that have no face.
C13_Witness ==
    /\ ZeroCall
    /\ pc = "done"
    /\ esel # {}
    /\ \/ mesh.faces = <<>>
       \/ /\ args.distance = RZero
          /\ \E i \in 1..Len(SelectedEdges) :
                FindFirstLoop(SelectedEdges[i], args.direction) # NoLoop

\* A call that reached the pass over the seed edges.
PassCall ==
    /\ pc = "done"
    /\ args.op = "paint_topology_gradient"
    /\ hist.extents # <<>>
\* The least and the greatest of the extents found for the seed edges.
LeastExtent ==
    CHOOSE x \in {hist.edge_extents[j] : j \in DOMAIN hist.edge_extents} :
        \A j \in DOMAIN hist.edge_extents : x <= hist.edge_extents[j]
GreatestExtent ==
    CHOOSE x \in {hist.edge_extents[j] : j \in DOMAIN hist.edge_extents} :
        \A j \in DOMAIN hist.edge_extents : x >= hist.edge_extents[j]
\* min(d, e) of the distance d = |distance| and a whole extent e
CappedBy(d, e) == IF RLe(d, R(e)) THEN d ELSE R(e)

\* C18: with the extents e_j found for the seed edges and the distance d, the
\* extent seed edge i is painted with is min(d, min_j e_j) in Minimum mode,
\* min(d, max_j e_j) in Maximum mode, both the same for every edge, and
\* min(d, e_i) in Individual mode.
C18_ExtentClamped ==
    PassCall =>
        \A i \in DOMAIN hist.extents :
            hist.extents[i] =
                CASE args.extent_clamp_mode = "MINIMUM" ->
                       CappedBy(RAbs(args.distance), LeastExtent)
                  [] args.extent_clamp_mode = "MAXIMUM" ->
                       CappedBy(RAbs(args.distance), GreatestExtent)
                  [] args.extent_clamp_mode = "INDIVIDUAL" ->
                       CappedBy(RAbs(args.distance), hist.edge_extents[i])

\* A Minimum pass has been made from two seed edges of different extents,
\* both above 0, with a distance between the two.
C18_Witness ==
    /\ PassCall
    /\ args.extent_clamp_mode = "MINIMUM"
    /\ Len(hist.edge_extents) = 2
    /\ 0 < LeastExtent
    /\ RLt(R(LeastExtent), args.distance)
    /\ RLt(args.distance, R(GreatestExtent))
    /\ layers # hist.pre

\* The direction of the first pass of the call made, and its seed edges
\* that have a face offering a step in that direction.
PassDirection ==
    IF RLt(args.distance, RZero) THEN Neg2(args.direction) ELSE args.direction
HasStep(edge) == FindFirstLoop(edge, PassDirection) # NoLoop

\* The elements written when every seed edge from the i-th on that has a
\* step is walked with its extent, the others being passed over.
RECURSIVE WalkedEachFrom(_, _)
WalkedEachFrom(st, i) ==
    IF i > Len(SelectedEdges) THEN st
    ELSE IF ~HasStep(SelectedEdges[i]) THEN WalkedEachFrom(st, i + 1)
    ELSE Only({WalkedEachFrom(
                 WalkFrom(st, 0, loop_0, LoopFace(loop_0), 0, WalkOf(hist.extents[i]), args),
                 i + 1) : loop_0 \in {FindFirstLoop(SelectedEdges[i], PassDirection)}})

\* C22: a pass over the seed edges writes what the walks of all the seed
\* edges that have a step in the direction write, each walked with its
\* extent, wherever the edges without a step are in the list.
C22_EachSeedWalked ==
    (PassCall /\ ~args.mirror) =>
        hist.log = WalkedEachFrom([buf |-> hist.pre["Col"], log |-> <<>>, weights |-> <<>>], 1).log

\* The seed edges the first pass has walked: those up to the first one
\* without a step.  The elements written by the walk of the i-th of them,
\* in order.
WalkedEdges == {i \in DOMAIN hist.extents : \A j \in 1..i : HasStep(SelectedEdges[j])}
Walk(i) ==
    Only({WalkFrom([buf |-> hist.pre["Col"], log |-> <<>>, weights |-> <<>>], 0, loop_0,
                   LoopFace(loop_0), 0, WalkOf(hist.extents[i]), args) :
            loop_0 \in {FindFirstLoop(SelectedEdges[i], PassDirection)}})
WalkLog(i) == Walk(i).log
NoRepeat(log) == \A j, k \in DOMAIN log : log[j] = log[k] => j = k

\* C23: in the corner domain the walk of a seed edge's strip writes no face
\* corner twice, in every extent clamp mode and for every distance.
C23_CornerWrittenOnce ==
    (PassCall /\ corner) => \A i \in WalkedEdges : NoRepeat(WalkLog(i))

(***************************************************************************)
(* SpecColor: the functions of color_utils.py, each called on arguments    *)
(* drawn at the start.  A blend function is called once; hue_interp is     *)
(* called with a factor that grows from 0 to 1.                            *)
(***************************************************************************)
\* Colours within [0, 1], a grey among them, and colours with a channel
\* above 1 or below 0, as a float attribute can hold.
Teal == Col(Rat(1, 4), RHalf, Rat(3, 4), Rat(1, 5))
Grey == Col(RHalf, RHalf, RHalf, RHalf)
Under == Col(Rat(-1, 2), Rat(1, 4), RHalf, ROne)
BaseColors == {Teal, Reddish, Glow, Under}
BlendColors == {Red, FaintBlue, Grey, Glow}
BlendFactors == {RZero, RHalf, ROne}
\* Hues in [0, 1) and the factors hue_interp is called with, in order.
Hues == {RZero, Rat(1, 8), Rat(1, 4), RHalf, Rat(3, 4)}
HueFactors == <<RZero, Rat(1, 4), RHalf, Rat(3, 4), ROne>>

InitColor ==
    /\ mesh = WireMesh(1)
    /\ corner = FALSE
    /\ activeAttr = "Col"
    /\ layers = [n \in {"Col"} |-> [v \in Verts(mesh) |-> Black]]
    /\ vsel = {}
    /\ esel = {}
    /\ fsel = {}
    /\ select_history = NoHistory
    /\ pc = "idle"
    /\ \/ \E mode \in AllBlendModes, fac \in BlendFactors,
             col1 \in BaseColors, col2 \in BlendColors :
            args = [op |-> "blend", mode |-> mode, fac |-> fac, col1 |-> col1,
                    col2 |-> col2, out |-> col1, error |-> "none"]
       \/ \E intp_type \in HueInterpTypes, h1 \in Hues, h2 \in Hues :
            args = [op |-> "hue_interp", intp_type |-> intp_type, h1 |-> h1, h2 |-> h2,
                    calls |-> 0, fac |-> RZero, hue |-> h1]
    /\ q = <<>>
    /\ saved = NoSaved
    /\ sess = NoSession
    /\ hist = [fac |-> RZero, hue |-> RZero]

\* BLEND_MODES[mode][0](fac, col1, col2)
BlendApply ==
    /\ pc = "idle"
    /\ args.op = "blend"
    /\ \E r \in {BlendCall(args.mode, args.fac, args.col1, args.col2)} :
         /\ pc' = IF r.end = "done" THEN "done" ELSE "error"
         /\ args' = [args EXCEPT !.out = r.col,
                                 !.error = IF r.end = "done" THEN "none" ELSE r.end]
    /\ UNCHANGED <<mesh, corner, layers, activeAttr, vsel, esel, fsel, select_history,
                   q, saved, sess, hist>>

\* hue_interp(intp_type, fac, h1, h2), with the next factor; the history
\* keeps the factor and the hue of the call before.
HueInterpApply ==
    /\ pc \in {"idle", "done"}
    /\ args.op = "hue_interp"
    /\ args.calls < Len(HueFactors)
    /\ \E fac \in {HueFactors[args.calls + 1]} :
         args' = [args EXCEPT !.calls = @ + 1, !.fac = fac,
                              !.hue = HueInterp(args.intp_type, fac, args.h1, args.h2)]
    /\ hist' = [fac |-> args.fac, hue |-> args.hue]
    /\ pc' = "done"
    /\ UNCHANGED <<mesh, corner, layers, activeAttr, vsel, esel, fsel, select_history,
                   q, saved, sess>>

NextColor == BlendApply \/ HueInterpApply

SpecColor == InitColor /\ [][NextColor]_vars

(***************************************************************************)
(* Properties of the blend functions (SpecColor).                          *)
(***************************************************************************)
BlendEnded == args.op = "blend" /\ pc \in {"done", "error"}
SameRgb(a, b) == a[1] = b[1] /\ a[2] = b[2] /\ a[3] = b[3]

\* C14, as claimed: each of the 22 blend functions called with factor 0
\* returns the base colour in all four channels, also for base and blend
\* colours with channels below 0 or above 1; the three alpha-only functions
\* return the red, green and blue of the base at every factor.
C14_FactorZeroIsIdentity ==
    BlendEnded =>
        /\ args.fac = RZero => (pc = "done" /\ args.out = args.col1)
        /\ args.mode \in AlphaBlendModes => (pc = "done" /\ SameRgb(args.out, args.col1))

\* C15, as claimed: each of the 19 blend functions other than the three
\* alpha-only ones returns, at every factor and for every base and blend
\* colour, a colour whose alpha is the alpha of the base.
C15_AlphaOfBase ==
    (BlendEnded /\ args.mode \notin AlphaBlendModes)
    => (pc = "done" /\ args.out[4] = args.col1[4])

(***************************************************************************)
(* Properties of hue_interp (SpecColor).                                   *)
(***************************************************************************)
HueCalled == args.op = "hue_interp" /\ pc = "done"
\* The length in [0, 1) of the arc from hue a to hue b, taken in the
\* increasing direction modulo 1, and in the decreasing direction.
ArcUp(a, b) == IF RLt(b, a) THEN RAdd(RSub(b, a), ROne) ELSE RSub(b, a)
ArcDown(a, b) == ArcUp(b, a)
\* As the factor grows from 0 to 1 the hue goes from h1 to h2 without ever
\* going back, along the arc that Arc measures.
MovesAlong(Arc(_, _)) ==
    /\ args.fac = RZero => args.hue = args.h1
    /\ args.fac = ROne => args.hue = args.h2
    /\ RLe(Arc(args.h1, args.hue), Arc(args.h1, args.h2))
    /\ args.calls >= 2 => RLe(Arc(args.h1, hist.hue), Arc(args.h1, args.hue))

\* C16, as claimed: for hues in [0, 1), Clockwise moves from h1 to h2 in the
\* decreasing direction modulo 1 only, Counter-clockwise in the increasing
\* direction modulo 1 only.
C16_CwDecreases ==
    HueCalled =>
        /\ args.intp_type = "CW" => MovesAlong(ArcDown)
        /\ args.intp_type = "CCW" => MovesAlong(ArcUp)

\* C16, amended: Clockwise moves from h1 to h2 in the increasing direction
\* modulo 1 only (through 1 to 0 when h1 > h2), Counter-clockwise in the
\* decreasing direction modulo 1 only (through 0 to 1 when h1 < h2).
C16_CwIncreases ==
    HueCalled =>
        /\ args.intp_type = "CW" => MovesAlong(ArcUp)
        /\ args.intp_type = "CCW" => MovesAlong(ArcDown)

\* A Clockwise interpolation from a hue to a smaller one has just stepped
\* through 1, and has moved since the factor was 0.
C16_Witness ==
    /\ HueCalled
    /\ args.intp_type = "CW"
    /\ RLt(args.h2, args.h1)
    /\ args.calls >= 2
    /\ RLt(args.hue, hist.hue)
    /\ args.hue # args.h2

\* A pass over one seed edge that has a step, in the point domain.
OneSeedPointPass ==
    /\ PassCall
    /\ ~corner
    /\ ~args.mirror
    /\ Len(SelectedEdges) = 1
    /\ HasStep(SelectedEdges[1])
\* The colour a vertex has after the blend of weight 0 is applied once to
\* the colour it had before the call.
BlendedOnceAtZero(v) ==
    ModifiedColor(hist.pre["Col"][v], args.blend, args.clip_colors,
                  WeightFactor(args, RZero), WeightColor(args, RZero))

\* C27: in the point domain the pass over one seed edge writes no vertex
\* twice, on closed rings of quads and on strips ending at a boundary, and
\* the two vertices of the seed edge end with the blend of weight 0 applied
\* exactly once.
C27_VertexWrittenOnce ==
    OneSeedPointPass =>
        /\ NoRepeat(hist.log)
        /\ \A v \in SelectedEdges[1] : ActiveBuf[v] = BlendedOnceAtZero(v)

\* The loop of step k of the walk that starts at loop l.
RECURSIVE Chain(_, _)
Chain(l, k) == IF k = 0 THEN l ELSE StepLoop(Chain(l, k - 1))
\* The steps of the walk of the i-th seed edge that meet a triangle before
\* the last step: no step before has left the walk.
MetTriangle(i) ==
    LET l0 == FindFirstLoop(SelectedEdges[i], PassDirection)
        w == WalkOf(hist.extents[i])
        face(k) == LoopFace(Chain(l0, k))
        sides(k) == Len(FaceVerts(mesh, face(k)))
    IN  {k \in 0..(w.step_count - 1) :
            /\ k # w.last_face_idx
            /\ sides(k) = 3
            /\ \A j \in 0..(k - 1) :
                  /\ sides(j) # 3
                  /\ ~(j # 0 /\ face(j) = face(0))
                  /\ ~(j # 0 /\ face(j - 1) = face(j))}
InUnitRange(x) == RLe(RZero, x) /\ RLe(x, ROne)

\* C28: every weight the topology gradient blends with lies in [0,1], for
\* every extent and distance: face_idx/denom of each step and
\* (face_idx+1)/denom of the far vertex or corner of a triangle met before
\* the last step; that far element is the last one the walk writes.
C28_WeightsInUnitRange ==
    PassCall =>
        /\ \A j \in DOMAIN hist.weights : InUnitRange(hist.weights[j])
        /\ \A i \in WalkedEdges : \A k \in MetTriangle(i) :
              \E walk \in {Walk(i)}, l \in {Chain(FindFirstLoop(SelectedEdges[i],
                                                              PassDirection), k)} :
                 /\ walk.log[Len(walk.log)] = PaintElem(LoopNext(mesh, LoopNext(mesh, l)))
                 /\ walk.weights[Len(walk.weights)]
                      = RDiv(R(k + 1), WalkOf(hist.extents[i]).denom)
                 /\ ~corner =>
                       \A j \in 1..(Len(walk.weights) - 1) :
                          walk.weights[j]
                            = RDiv(R((j - 1) \div 2), WalkOf(hist.extents[i]).denom)
\* A walk has crossed a quad and met a triangle, whose far element it gave a
\* weight above that of the step, and a weight strictly inside (0,1) and the
\* weight 1 were both used.
C28_Witness ==
    /\ PassCall
    /\ \E i \in WalkedEdges : \E k \in MetTriangle(i) : k >= 1
    /\ \E j \in DOMAIN hist.weights : hist.weights[j] = ROne
    /\ \E j \in DOMAIN hist.weights : RLt(RZero, hist.weights[j]) /\ RLt(hist.weights[j], ROne)

(***************************************************************************)
(* SpecLoops: _find_first_loop and _find_edge_extent (topology_gradient.py)*)
(* called on an edge of a mesh with a direction.  Besides the strips, the  *)
(* meshes are closed rings of quads, strips that end in a pentagon, and    *)
(* two triangles on either side of an edge.                                *)
(***************************************************************************)
LoopMeshes ==
    {StripMesh(n) : n \in 1..MaxQuads} \cup {TriStripMesh(n) : n \in 1..MaxTris}
    \cup {RingMesh(n) : n \in 3..MaxRing}
    \cup {PentaStripMesh(n, beyond) : n \in 0..MaxQuads, beyond \in BOOLEAN}
    \cup {KiteMesh}
LoopDirections == {<<1, 0>>, <<0, 1>>, <<-1, 0>>, <<0, -1>>}

InitLoops ==
    /\ mesh \in LoopMeshes
    /\ corner = TRUE
    /\ activeAttr = "Col"
    /\ layers = [n \in {"Col"} |-> CycleColoring(ElemOrder(mesh, corner), CycleColors, 0)]
    /\ vsel = {}
    /\ esel = {}
    /\ fsel = {}
    /\ select_history = NoHistory
    /\ pc = "idle"
    /\ args = NoArgs
    /\ q = <<>>
    /\ saved = NoSaved
    /\ sess = NoSession
    /\ hist = <<>>

\* _find_first_loop(edge, direction)
FindFirstLoopCall ==
    /\ pc = "idle"
    /\ \E edge \in ExactEdges, direction \in LoopDirections :
         args' = [op |-> "_find_first_loop", edge |-> edge, direction |-> direction,
                  loop |-> FindFirstLoop(edge, direction), extent |-> 0]
    /\ pc' = "done"
    /\ UNCHANGED <<mesh, corner, layers, activeAttr, vsel, esel, fsel, select_history,
                   q, saved, sess, hist>>

\* _find_edge_extent(edge, direction)
FindEdgeExtentCall ==
    /\ pc = "idle"
    /\ \E edge \in ExactEdges, direction \in LoopDirections :
         args' = [op |-> "_find_edge_extent", edge |-> edge, direction |-> direction,
                  loop |-> FindFirstLoop(edge, direction),
                  extent |-> FindEdgeExtent(edge, direction)]
    /\ pc' = "done"
    /\ UNCHANGED <<mesh, corner, layers, activeAttr, vsel, esel, fsel, select_history,
                   q, saved, sess, hist>>

NextLoops == FindFirstLoopCall \/ FindEdgeExtentCall

SpecLoops == InitLoops /\ [][NextLoops]_vars

(***************************************************************************)
(* Properties of _find_first_loop and _find_edge_extent (SpecLoops).       *)
(***************************************************************************)
\* The faces of the strip that starts with a loop: the face of the loop,
\* then the face across the opposite edge, and so on up to the first face
\* that is not a quad, or the last before the mesh's boundary, or the last
\* before the strip is back at its first face.
RECURSIVE StripFrom(_, _, _)
StripFrom(loop, first, strip) ==
    LET f == LoopFace(loop)
        next == StepLoop(loop)
    IN  IF Len(FaceVerts(mesh, f)) # 4 THEN Append(strip, f)
        ELSE IF LoopFace(next) = f \/ LoopFace(next) = first \/ Len(strip) >= Len(mesh.faces)
             THEN Append(strip, f)
        ELSE StripFrom(next, first, Append(strip, f))
StripOf(loop) == StripFrom(loop, LoopFace(loop), <<>>)
LastOf(strip) == Len(FaceVerts(mesh, strip[Len(strip)]))

\* C24: _find_edge_extent returns 0 when no face offers a step in the
\* direction; else, with k the number of faces of the strip up to its first
\* face that is not a quad, it returns k when that face is a triangle or
\* when all the faces are quads (open strip or closed ring), and k - 1 when
\* it is a face of more than four vertices.
C24_ExtentCountsStrip ==
    args.op = "_find_edge_extent" =>
        args.extent =
            IF args.loop = NoLoop THEN 0
            ELSE IF LastOf(StripOf(args.loop)) > 4 THEN Len(StripOf(args.loop)) - 1
            ELSE Len(StripOf(args.loop))

\* The alignment of the step of each face on an edge with two faces.
TwoFaced == Len(EdgeLoops(mesh, args.edge)) = 2
Alignment(i) ==
    Only({NormalizedDot(LoopVert(mesh, l), LoopVert(mesh, StepLoop(l)), args.direction) :
            l \in {EdgeLoops(mesh, args.edge)[i]}})

\* C25: on an edge with two faces _find_first_loop returns the loop of the
\* face whose step is more aligned with the direction, and the loop of the
\* first face when the two are equally aligned.
C25_TieYieldsFirst ==
    (args.op = "_find_first_loop" /\ TwoFaced) =>
        args.loop = IF RLt(Alignment(1), Alignment(2))
                    THEN EdgeLoops(mesh, args.edge)[2]
                    ELSE EdgeLoops(mesh, args.edge)[1]

(***************************************************************************)
(* SpecSharp: paint_gradient called once on a corner attribute of a strip  *)
(* of triangles or quads, all faces taken, with Add as the blend function  *)
(* and factors (1, 1), so that every corner painted changes its colour.    *)
(***************************************************************************)
SharpMeshes ==
    {TriStripMesh(n) : n \in 1..MaxTris} \cup {StripMesh(n) : n \in 1..MaxQuads}

InitSharp ==
    /\ mesh \in SharpMeshes
    /\ corner = TRUE
    /\ activeAttr = "Col"
    /\ layers = [n \in {"Col"} |-> CycleColoring(ElemOrder(mesh, corner), CycleColors, 0)]
    /\ fsel = Faces(mesh)
    /\ vsel = VertsOfFaces(mesh, fsel)
    /\ esel = EdgesOfFaces(mesh, fsel)
    /\ select_history = NoHistory
    /\ pc = "idle"
    /\ args = NoArgs
    /\ q = <<>>
    /\ saved = NoSaved
    /\ sess = NoSession
    /\ hist = [pre |-> [layers |-> layers]]

\* paint_gradient(mesh, selected_only, extend_mode, boundary_sharp_mode,
\* gradient_type, interp_func, blend_func, clip_colors, factor, color, line)
PaintCornersCall ==
    /\ pc = "idle"
    /\ \E selected_only \in BOOLEAN, extend_mode \in ExtendModes,
          boundary_sharp_mode \in SharpModes, gradient_type \in GradientTypes,
          l0 \in LinePoints(mesh), l1 \in LinePoints(mesh) :
         /\ gradient_type = "RADIAL" => RadialExact(mesh, l0, l1)
         /\ \E p \in {[op |-> "paint_gradient",
                       selected_only |-> selected_only,
                       extend_mode |-> extend_mode,
                       boundary_sharp_mode |-> boundary_sharp_mode,
                       gradient_type |-> gradient_type,
                       interp |-> "LINEAR", blend |-> "ADD",
                       clip_colors |-> FALSE,
                       factor |-> <<ROne, ROne>>, color |-> <<Red, FaintBlue>>,
                       l0 |-> l0, l1 |-> l1]} :
              /\ args' = p
              /\ layers' = WithActive(PaintGradient(ActiveBuf, p))
              /\ pc' = IF PaintGradientEnd(p) = "done" THEN "done" ELSE "error"
    /\ UNCHANGED <<mesh, corner, activeAttr, vsel, esel, fsel, select_history,
                   q, saved, sess, hist>>

NextSharp == PaintCornersCall

SpecSharp == InitSharp /\ [][NextSharp]_vars

(***************************************************************************)
(* Properties of the sharp boundary (SpecSharp).                           *)
(***************************************************************************)
\* The distances of a position to the boundaries the call made does not
\* extend: for a line the one through its begin point (extend mode OFF or
\* FORWARD) and the one through its end point (OFF or BACKWARD), for a
\* circle the radius (OFF or BACKWARD).  A distance is positive inside.
BoundaryDistances(co) ==
    IF args.gradient_type = "LINEAR"
    THEN (IF args.extend_mode \in {"OFF", "FORWARD"}
          THEN {DistanceToLine(co, args.l0, args.l1)} ELSE {})
         \cup (IF args.extend_mode \in {"OFF", "BACKWARD"}
               THEN {DistanceToLine(co, args.l1, args.l0)} ELSE {})
    ELSE IF args.extend_mode \in {"OFF", "BACKWARD"}
         THEN {DistanceToRadius(co, args.l0, LengthSquared(Sub2(args.l1, args.l0)))}
         ELSE {}
CornerCo(l) == mesh.co[LoopVert(mesh, l)]
OnBoundary(l) ==
    /\ \E d \in BoundaryDistances(CornerCo(l)) : d = RZero
    /\ \A d \in BoundaryDistances(CornerCo(l)) : RLe(RZero, d)
StrictlyInside(l) == \A d \in BoundaryDistances(CornerCo(l)) : RLt(RZero, d)
SharpVertexCall ==
    /\ pc = "done"
    /\ args.op = "paint_gradient"
    /\ args.boundary_sharp_mode = "VERTEX"
    /\ ~args.selected_only
    /\ args.l0 # args.l1

\* C26: in sharp-edge mode Vertex, Linear or Radial, a corner whose vertex
\* is on a boundary that is not extended is painted when the corner before
\* it or the corner after it in its face is strictly inside the bounds.
C26_BoundaryCornerPainted ==
    SharpVertexCall =>
        \A l \in LoopSet(mesh) :
            (/\ OnBoundary(l)
             /\ StrictlyInside(LoopPrev(mesh, l)) \/ StrictlyInside(LoopNext(mesh, l)))
                => ActiveBuf[l] # hist.pre.layers["Col"][l]

(***************************************************************************)
(* SpecSelection: set_selection_color, called once on any selection of     *)
(* vertices or of faces, with any active element.                          *)
(***************************************************************************)
SelectionMeshes == {StripMesh(n) : n \in 1..MaxQuads} \cup {WireMesh(n) : n \in 1..MaxWire}

InitSelection ==
    /\ mesh \in SelectionMeshes
    /\ corner \in (IF mesh.faces = <<>> THEN {FALSE} ELSE BOOLEAN)
    /\ activeAttr = "Col"
    /\ layers = [n \in {"Col"} |-> CycleColoring(ElemOrder(mesh, corner), CycleColors, 0)]
    /\ \/ /\ vsel \in SUBSET Verts(mesh)
          /\ esel = EdgesWithin(mesh, vsel)
          /\ fsel = FacesWithin(mesh, vsel)
       \/ /\ fsel \in SUBSET Faces(mesh)
          /\ vsel = VertsOfFaces(mesh, fsel)
          /\ esel = EdgesOfFaces(mesh, fsel)
    /\ select_history \in Histories(mesh)
    /\ pc = "idle"
    /\ args = NoArgs
    /\ q = <<>>
    /\ saved = NoSaved
    /\ sess = NoSession
    /\ hist = [pre |-> layers, log |-> <<>>]

\* set_selection_color(mesh, active_corner_only, blend_func, factor, color,
\* clip_colors).  The history keeps the elements written, in order.
SetSelectionCall ==
    /\ pc = "idle"
    /\ \E active_corner_only \in BOOLEAN, blend \in {"ADD", "MIX"}, factor \in {RHalf, ROne} :
         \E p \in {[op |-> "set_selection_color", error |-> "none",
                    active_corner_only |-> active_corner_only, blend |-> blend,
                    factor |-> factor, color |-> Red, clip_colors |-> FALSE]} :
            \E r \in {SetSelectionColor(ActiveBuf, p)} :
               /\ layers' = WithActive(r.st.buf)
               /\ pc' = IF r.end = "done" THEN "done" ELSE "error"
               /\ args' = [p EXCEPT !.error = IF r.end = "done" THEN "none" ELSE r.end]
               /\ hist' = [hist EXCEPT !.log = r.st.log]
    /\ UNCHANGED <<mesh, corner, activeAttr, vsel, esel, fsel, select_history,
                   q, saved, sess>>

NextSelection == SetSelectionCall

SpecSelection == InitSelection /\ [][NextSelection]_vars

(***************************************************************************)
(* Properties of set_selection_color (SpecSelection).                      *)
(***************************************************************************)
SelectionDone == pc = "done" /\ args.op = "set_selection_color"
\* The corners of the selected faces, and all the corners of the selected
\* vertices that belong to no selected face.
FaceCorners == {l \in LoopSet(mesh) : LoopFace(l) \in fsel}
LooseCorners ==
    {l \in LoopSet(mesh) :
        /\ LoopVert(mesh, l) \in vsel
        /\ \A f \in fsel : \A k \in 1..Len(mesh.faces[f]) : mesh.faces[f][k] # LoopVert(mesh, l)}
\* The elements the call is to blend.
Affected ==
    IF corner
    THEN IF args.active_corner_only
         THEN {l \in FaceCorners : LoopVert(mesh, l) = ActiveVertex}
         ELSE FaceCorners \cup LooseCorners
    ELSE IF args.active_corner_only THEN {ActiveVertex} ELSE vsel

\* C30: set_selection_color blends each affected element exactly once and
\* nothing else: no element is written twice, the elements written are the
\* affected ones (in the corner domain without active_corner_only the
\* corners of the selected faces and all corners of the selected vertices
\* of no selected face, two disjoint groups), each holds the blend of its
\* old colour applied once, and every other element keeps its colour.
C30_BlendsEachOnce ==
    SelectionDone =>
        /\ NoRepeat(hist.log)
        /\ {hist.log[j] : j \in DOMAIN hist.log} = Affected
        /\ FaceCorners \cap LooseCorners = {}
        /\ \A e \in Elems(mesh, corner) :
              ActiveBuf[e] = IF e \in Affected
                             THEN ModifiedColor(hist.pre["Col"][e], args.blend,
                                                args.clip_colors, args.factor, args.color)
                             ELSE hist.pre["Col"][e]
\* A call in the corner domain without active_corner_only that added to the
\* corners of a selected face and to those of a selected vertex of no
\* selected face, and left a corner alone.
C30_Witness ==
    /\ SelectionDone
    /\ corner
    /\ ~args.active_corner_only
    /\ args.blend = "ADD"
    /\ FaceCorners # {}
    /\ LooseCorners # {}
    /\ Affected # LoopSet(mesh)
    /\ \A e \in Affected : ActiveBuf[e] # hist.pre["Col"][e]
====
